---- MODULE Spec2Model ----
(***************************************************************************)
(* Model of the html2canvas canvas renderer (CanvasRenderer: paint-order   *)
(* traversal, background/mask layer compositing, effect stack) and of the  *)
(* mask geometry helpers (calculateMaskSize, getMaskValueForIndex).        *)
(*                                                                         *)
(* Numbers of the geometry helpers are exact rationals <<num, den>> with   *)
(* den > 0 in lowest terms; IEEE rounding of the JavaScript doubles is not *)
(* modelled.  null is the empty tuple, undefined the string "undefined".    *)
(***************************************************************************)
EXTENDS Integers, Sequences, FiniteSets, TLC

VARIABLES
    \* ---- the render pass -------------------------------------------------
    backgroundImage,   \* styles.backgroundImage of the layered element
    backgroundSize,    \* styles.backgroundSize of the layered element
    maskImage,         \* styles.maskImage of the layered element
    hidden,            \* the elements whose styles.isVisible() is false
    optionsBackgroundColor, \* options.backgroundColor of the outer renderer
    status,            \* "idle" | "running" | "resolved" | "rejected"
    agenda,            \* continuation of the running async call chain
    pending,           \* cache.match requests that have not settled
    renderers,         \* CanvasRenderer instances, outermost first
    temp,              \* the offscreen canvas of renderNodeBackgroundAndBorders
    ops,               \* history: the draw operations issued, in order
    requests,          \* history: the cache.match requests started, in order
    logged,            \* history: logger.error calls
    \* ---- the pure helpers ------------------------------------------------
    fnPc,              \* "in" before the call, "out" after it
    fnArgs,            \* the arguments of the call
    fnRet              \* the value returned (or the error raised)

vars == <<backgroundImage, backgroundSize, maskImage, hidden,
          optionsBackgroundColor, status, agenda,
          pending, renderers, temp, ops, requests, logged, fnPc, fnArgs, fnRet>>

renderVars == <<backgroundImage, backgroundSize, maskImage, hidden,
                optionsBackgroundColor, status, agenda, pending, renderers, temp, ops, requests, logged>>

fnVars == <<fnPc, fnArgs, fnRet>>

(***************************************************************************)
(* Bounds                                                                  *)
(***************************************************************************)
MaxLen == 3
MaxIdx == 3
MaxRatio == 2
MaxBgLayers == 3
MaxMaskLayers == 2
MaxTokens == 2

(***************************************************************************)
(* Exact rational arithmetic                                               *)
(***************************************************************************)
Null == <<>>

Abs(x) == IF x < 0 THEN -x ELSE x

RECURSIVE GCD(_, _)
GCD(a, b) == IF b = 0 THEN a ELSE GCD(b, a % b)

Norm(n, d) ==
    LET g == GCD(Abs(n), Abs(d))
        s == IF d < 0 THEN -1 ELSE 1
    IN  <<(s * n) \div g, (s * d) \div g>>

Num(k) == <<k, 1>>

RMul(a, b) == Norm(a[1] * b[1], a[2] * b[2])

RDiv(a, b) == Norm(a[1] * b[2], a[2] * b[1])

RLt(a, b) == a[1] * b[2] < b[1] * a[2]

RLe(a, b) == a[1] * b[2] <= b[1] * a[2]

RAdd(a, b) == Norm(a[1] * b[2] + b[1] * a[2], a[2] * b[2])

RSub(a, b) == Norm(a[1] * b[2] - b[1] * a[2], a[2] * b[2])

\* Math.round: the nearest integer, a half going up
Round(a) == (2 * a[1] + a[2]) \div (2 * a[2])

(***************************************************************************)
(* CSS tokens of a mask-size / background-size layer value                 *)
(***************************************************************************)
Ident(v) == [type |-> "ident", value |-> v, number |-> 0]

Px(k) == [type |-> "dimension", value |-> "px", number |-> k]

Pct(k) == [type |-> "percentage", value |-> "%", number |-> k]

AUTO == "auto"

CONTAIN == "contain"

COVER == "cover"

isIdentToken(token) == token.type = "ident"

isLengthPercentage(token) == token.type \in {"dimension", "percentage"}

isAuto(token) == isIdentToken(token) /\ token.value = AUTO

hasIntrinsicValue(value) == value # Null

getAbsoluteValue(token, parent) ==
    IF token.type = "percentage"
    THEN RMul(Norm(token.number, 100), parent)
    ELSE Num(token.number)

(***************************************************************************)
(* getMaskValueForIndex: values[index], or values[0] when that is          *)
(* undefined.  Lists are 1-based here, indices 0-based as in the source;   *)
(* reading an array past its end yields Undefined and never raises.        *)
(***************************************************************************)
Undefined == "undefined"

ArrayGet(values, index) ==
    IF index + 1 \in DOMAIN values THEN values[index + 1] ELSE Undefined

getMaskValueForIndexModulo(values, index) ==
    IF Len(values) = 0 THEN Undefined ELSE values[(index % Len(values)) + 1]

getMaskValueForIndex(values, index) ==
    IF index + 1 \in DOMAIN values
    THEN values[index + 1]
    ELSE ArrayGet(values, 0)

(***************************************************************************)
(* calculateMaskSize(size, [intrinsicWidth, intrinsicHeight,               *)
(* intrinsicProportion], bounds).  Returns <<width, height>>, or the error *)
(* it raises.                                                              *)
(***************************************************************************)
SizeError == <<"Unable to calculate mask-size for element">>

TypeError == <<"TypeError">>

\* bounds.width / bounds.height < intrinsicProportion in IEEE arithmetic:
\* a zero height makes the quotient Infinity or NaN, and the test false.
targetRatioLess(bounds, intrinsicProportion) ==
    IF bounds.height[1] = 0
    THEN FALSE
    ELSE RLt(RDiv(bounds.width, bounds.height), intrinsicProportion)

\* lines 115-125: contain / cover
containCoverSwapped(first, intrinsicProportion, bounds) ==
    IF hasIntrinsicValue(intrinsicProportion)
    THEN IF targetRatioLess(bounds, intrinsicProportion) # (first.value = CONTAIN)
         THEN <<bounds.width, RDiv(bounds.width, intrinsicProportion)>>
         ELSE <<RMul(bounds.height, intrinsicProportion), bounds.height>>
    ELSE <<bounds.width, bounds.height>>

containCover(first, intrinsicProportion, bounds) ==
    IF hasIntrinsicValue(intrinsicProportion)
    THEN IF targetRatioLess(bounds, intrinsicProportion) # (first.value = COVER)
         THEN <<bounds.width, RDiv(bounds.width, intrinsicProportion)>>
         ELSE <<RMul(bounds.height, intrinsicProportion), bounds.height>>
    ELSE <<bounds.width, bounds.height>>

\* lines 132-164: auto / auto auto
autoSizeAreaFirst(intrinsic, bounds) ==
    LET intrinsicWidth == intrinsic[1]
        intrinsicHeight == intrinsic[2]
        hasIntrinsicWidth == hasIntrinsicValue(intrinsicWidth)
        hasIntrinsicHeight == hasIntrinsicValue(intrinsicHeight)
    IN  <<IF hasIntrinsicWidth THEN intrinsicWidth ELSE bounds.width,
          IF hasIntrinsicHeight THEN intrinsicHeight ELSE bounds.height>>

autoSize(intrinsic, bounds) ==
    LET intrinsicWidth == intrinsic[1]
        intrinsicHeight == intrinsic[2]
        intrinsicProportion == intrinsic[3]
        hasIntrinsicProportion == hasIntrinsicValue(intrinsicProportion)
        hasIntrinsicWidth == hasIntrinsicValue(intrinsicWidth)
        hasIntrinsicHeight == hasIntrinsicValue(intrinsicHeight)
        hasIntrinsicDimensions == hasIntrinsicWidth \/ hasIntrinsicHeight
    IN  IF hasIntrinsicWidth /\ hasIntrinsicHeight
        THEN <<intrinsicWidth, intrinsicHeight>>
        ELSE IF ~hasIntrinsicProportion /\ ~hasIntrinsicDimensions
        THEN <<bounds.width, bounds.height>>
        ELSE IF hasIntrinsicDimensions /\ hasIntrinsicProportion
        THEN <<IF hasIntrinsicWidth
               THEN intrinsicWidth
               ELSE RMul(intrinsicHeight, intrinsicProportion),
               IF hasIntrinsicHeight
               THEN intrinsicHeight
               ELSE RDiv(intrinsicWidth, intrinsicProportion)>>
        ELSE <<IF hasIntrinsicWidth THEN intrinsicWidth ELSE bounds.width,
               IF hasIntrinsicHeight THEN intrinsicHeight ELSE bounds.height>>

\* lines 168-184: one axis given, intrinsic proportion known.  Line 173 hands
\* `second` to isLengthPercentage unguarded; with no second token that reads
\* a property of undefined.
stretchByProportionInverted(size, intrinsicProportion, bounds) ==
    LET first == size[1]
        hasSecond == Len(size) >= 2
        width0 == IF isLengthPercentage(first)
                  THEN getAbsoluteValue(first, bounds.width)
                  ELSE Num(0)
        height0 == IF ~isLengthPercentage(first) /\ isLengthPercentage(size[2])
                   THEN getAbsoluteValue(size[2], bounds.height)
                   ELSE Num(0)
    IN  IF ~isLengthPercentage(first) /\ ~hasSecond
        THEN TypeError
        ELSE IF isAuto(first)
        THEN <<RDiv(height0, intrinsicProportion), height0>>
        ELSE IF ~hasSecond \/ isAuto(size[2])
        THEN <<width0, RMul(width0, intrinsicProportion)>>
        ELSE <<width0, height0>>

stretchByProportion(size, intrinsicProportion, bounds) ==
    LET first == size[1]
        hasSecond == Len(size) >= 2
        width0 == IF isLengthPercentage(first)
                  THEN getAbsoluteValue(first, bounds.width)
                  ELSE Num(0)
        height0 == IF ~isLengthPercentage(first) /\ isLengthPercentage(size[2])
                   THEN getAbsoluteValue(size[2], bounds.height)
                   ELSE Num(0)
    IN  IF ~isLengthPercentage(first) /\ ~hasSecond
        THEN TypeError
        ELSE IF isAuto(first)
        THEN <<RMul(height0, intrinsicProportion), height0>>
        ELSE IF ~hasSecond \/ isAuto(size[2])
        THEN <<width0, RDiv(width0, intrinsicProportion)>>
        ELSE <<width0, height0>>

\* lines 191-218: one axis given, no intrinsic proportion
stretchNoProportion(size, intrinsic, bounds) ==
    LET first == size[1]
        hasSecond == Len(size) >= 2
        intrinsicWidth == intrinsic[1]
        intrinsicHeight == intrinsic[2]
        hasBoth == hasIntrinsicValue(intrinsicWidth) /\ hasIntrinsicValue(intrinsicHeight)
        width0 == IF isLengthPercentage(first)
                  THEN getAbsoluteValue(first, bounds.width)
                  ELSE Null
        height0 == IF ~isLengthPercentage(first) /\ hasSecond /\ isLengthPercentage(size[2])
                   THEN getAbsoluteValue(size[2], bounds.height)
                   ELSE Null
        height1 == IF width0 # Null /\ (~hasSecond \/ isAuto(size[2]))
                   THEN IF hasBoth
                        THEN RMul(RDiv(width0, intrinsicWidth), intrinsicHeight)
                        ELSE bounds.height
                   ELSE height0
        width1 == IF height1 # Null /\ isAuto(first)
                  THEN IF hasBoth
                       THEN RMul(RDiv(height1, intrinsicHeight), intrinsicWidth)
                       ELSE bounds.width
                  ELSE width0
    IN  IF width1 # Null /\ height1 # Null
        THEN <<width1, height1>>
        ELSE SizeError

calculateMaskSize(size, intrinsic, bounds) ==
    LET hasSecond == Len(size) >= 2
        intrinsicProportion == intrinsic[3]
    IN  IF Len(size) = 0
        THEN <<Num(0), Num(0)>>
        ELSE IF isLengthPercentage(size[1]) /\ hasSecond /\ isLengthPercentage(size[2])
        THEN <<getAbsoluteValue(size[1], bounds.width),
               getAbsoluteValue(size[2], bounds.height)>>
        ELSE IF isIdentToken(size[1]) /\ size[1].value \in {CONTAIN, COVER}
        THEN containCover(size[1], intrinsicProportion, bounds)
        ELSE IF isAuto(size[1]) /\ (~hasSecond \/ isAuto(size[2]))
        THEN autoSize(intrinsic, bounds)
        ELSE IF hasIntrinsicValue(intrinsicProportion)
        THEN stretchByProportion(size, intrinsicProportion, bounds)
        ELSE stretchNoProportion(size, intrinsic, bounds)

isSize(r) == Len(r) = 2

isError(r) == Len(r) = 1

(***************************************************************************)
(* Geometry of one mask layer: positioning and painting area, position,    *)
(* tile path.  A container is the element's bounds, border widths and      *)
(* padding (<<top, right, bottom, left>>) and its mask property lists.     *)
(***************************************************************************)
BORDER_BOX == 0

PADDING_BOX == 1

CONTENT_BOX == 2

REPEAT == 0

NO_REPEAT == 1

REPEAT_X == 2

REPEAT_Y == 3

Box(left, top, width, height) ==
    [left |-> left, top |-> top, width |-> width, height |-> height]

\* bounds.add(x, y, w, h)
BoundsAdd(bounds, x, y, w, h) ==
    Box(RAdd(bounds.left, Num(x)), RAdd(bounds.top, Num(y)),
        RAdd(bounds.width, Num(w)), RAdd(bounds.height, Num(h)))

\* the bounds inset by the border widths
paddingBox(element) ==
    LET b == element.borderWidth
    IN  BoundsAdd(element.bounds, b[4], b[1], -(b[2] + b[4]), -(b[1] + b[3]))

\* the padding box inset by the padding
contentBox(element) ==
    LET b == element.borderWidth
        q == element.padding
    IN  BoundsAdd(element.bounds, q[4] + b[4], q[1] + b[1],
                  -(b[2] + b[4] + q[4] + q[2]), -(b[1] + b[3] + q[1] + q[3]))

calculateMaskPositioningArea(maskOrigin, element) ==
    IF maskOrigin = BORDER_BOX
    THEN element.bounds
    ELSE IF maskOrigin = CONTENT_BOX
    THEN contentBox(element)
    ELSE paddingBox(element)

\* lines 26-36, without the content-box case
calculateMaskPaintingAreaNoContentBox(maskClip, element) ==
    IF maskClip = BORDER_BOX
    THEN element.bounds
    ELSE paddingBox(element)

calculateMaskPaintingArea(maskClip, element) ==
    IF maskClip = BORDER_BOX
    THEN element.bounds
    ELSE IF maskClip = CONTENT_BOX
    THEN contentBox(element)
    ELSE paddingBox(element)

\* [x, y] of a position of one or two length-percentages; a single one
\* stands for both axes
getAbsoluteValueForTuple(tuple, width, height) ==
    <<getAbsoluteValue(tuple[1], width),
      getAbsoluteValue(IF Len(tuple) >= 2 THEN tuple[2] ELSE tuple[1], height)>>

Vector(x, y) == [x |-> Num(x), y |-> Num(y)]

\* lines 230-291
calculateMaskRepeatPathSwapped(repeat, position, size, maskPositioningArea, maskPaintingArea) ==
    LET x == position[1]
        y == position[2]
        width == size[1]
        height == size[2]
        area == maskPositioningArea
        left == area.left
        top == area.top
        paint == maskPaintingArea
    IN  CASE repeat = REPEAT_Y ->
               <<Vector(Round(left), Round(RAdd(top, y))),
                 Vector(Round(RAdd(left, area.width)), Round(RAdd(top, y))),
                 Vector(Round(RAdd(left, area.width)), Round(RAdd(height, RAdd(top, y)))),
                 Vector(Round(left), Round(RAdd(height, RAdd(top, y))))>>
          [] repeat = REPEAT_X ->
               <<Vector(Round(RAdd(left, x)), Round(top)),
                 Vector(Round(RAdd(RAdd(left, x), width)), Round(top)),
                 Vector(Round(RAdd(RAdd(left, x), width)), Round(RAdd(area.height, top))),
                 Vector(Round(RAdd(left, x)), Round(RAdd(area.height, top)))>>
          [] repeat = NO_REPEAT ->
               <<Vector(Round(RAdd(left, x)), Round(RAdd(top, y))),
                 Vector(Round(RAdd(RAdd(left, x), width)), Round(RAdd(top, y))),
                 Vector(Round(RAdd(RAdd(left, x), width)), Round(RAdd(RAdd(top, y), height))),
                 Vector(Round(RAdd(left, x)), Round(RAdd(RAdd(top, y), height)))>>
          [] OTHER ->
               <<Vector(Round(paint.left), Round(paint.top)),
                 Vector(Round(RAdd(paint.left, paint.width)), Round(paint.top)),
                 Vector(Round(RAdd(paint.left, paint.width)), Round(RAdd(paint.height, paint.top))),
                 Vector(Round(paint.left), Round(RAdd(paint.height, paint.top)))>>

calculateMaskRepeatPath(repeat, position, size, maskPositioningArea, maskPaintingArea) ==
    LET x == position[1]
        y == position[2]
        width == size[1]
        height == size[2]
        area == maskPositioningArea
        left == area.left
        top == area.top
        paint == maskPaintingArea
    IN  CASE repeat = REPEAT_X ->
               <<Vector(Round(left), Round(RAdd(top, y))),
                 Vector(Round(RAdd(left, area.width)), Round(RAdd(top, y))),
                 Vector(Round(RAdd(left, area.width)), Round(RAdd(height, RAdd(top, y)))),
                 Vector(Round(left), Round(RAdd(height, RAdd(top, y))))>>
          [] repeat = REPEAT_Y ->
               <<Vector(Round(RAdd(left, x)), Round(top)),
                 Vector(Round(RAdd(RAdd(left, x), width)), Round(top)),
                 Vector(Round(RAdd(RAdd(left, x), width)), Round(RAdd(area.height, top))),
                 Vector(Round(RAdd(left, x)), Round(RAdd(area.height, top)))>>
          [] repeat = NO_REPEAT ->
               <<Vector(Round(RAdd(left, x)), Round(RAdd(top, y))),
                 Vector(Round(RAdd(RAdd(left, x), width)), Round(RAdd(top, y))),
                 Vector(Round(RAdd(RAdd(left, x), width)), Round(RAdd(RAdd(top, y), height))),
                 Vector(Round(RAdd(left, x)), Round(RAdd(RAdd(top, y), height)))>>
          [] OTHER ->
               <<Vector(Round(paint.left), Round(paint.top)),
                 Vector(Round(RAdd(paint.left, paint.width)), Round(paint.top)),
                 Vector(Round(RAdd(paint.left, paint.width)), Round(RAdd(paint.height, paint.top))),
                 Vector(Round(paint.left), Round(RAdd(paint.height, paint.top)))>>

\* what calculateMaskRendering hands back: [path, x, y, width, height], or
\* the error calculateMaskSize raised
Thrown(error) ==
    [error |-> error[1], path |-> <<>>, x |-> 0, y |-> 0, width |-> Num(0), height |-> Num(0)]

\* lines 38-92, the position resolved against the positioning area itself
calculateMaskRenderingAreaPosition(container, index, intrinsicSize) ==
    LET maskPositioningArea ==
            calculateMaskPositioningArea(getMaskValueForIndex(container.maskOrigin, index),
                                         container)
        maskPaintingArea ==
            calculateMaskPaintingArea(getMaskValueForIndex(container.maskClip, index), container)
        maskImageSize ==
            calculateMaskSize(getMaskValueForIndex(container.maskSize, index),
                              intrinsicSize, maskPositioningArea)
        position ==
            getAbsoluteValueForTuple(getMaskValueForIndex(container.maskPosition, index),
                                     maskPositioningArea.width,
                                     maskPositioningArea.height)
        path ==
            calculateMaskRepeatPath(getMaskValueForIndex(container.maskRepeat, index),
                                    position, maskImageSize,
                                    maskPositioningArea, maskPaintingArea)
    IN  IF isError(maskImageSize)
        THEN Thrown(maskImageSize)
        ELSE [error |-> "",
              path |-> [k \in DOMAIN path |->
                          [x |-> RSub(path[k].x, maskPositioningArea.left),
                           y |-> RSub(path[k].y, maskPositioningArea.top)]],
              x |-> Round(position[1]),
              y |-> Round(position[2]),
              width |-> maskImageSize[1],
              height |-> maskImageSize[2]]

\* lines 38-92
calculateMaskRendering(container, index, intrinsicSize) ==
    LET maskPositioningArea ==
            calculateMaskPositioningArea(getMaskValueForIndex(container.maskOrigin, index),
                                         container)
        maskPaintingArea ==
            calculateMaskPaintingArea(getMaskValueForIndex(container.maskClip, index), container)
        maskImageSize ==
            calculateMaskSize(getMaskValueForIndex(container.maskSize, index),
                              intrinsicSize, maskPositioningArea)
        position ==
            getAbsoluteValueForTuple(getMaskValueForIndex(container.maskPosition, index),
                                     RSub(maskPositioningArea.width, maskImageSize[1]),
                                     RSub(maskPositioningArea.height, maskImageSize[2]))
        path ==
            calculateMaskRepeatPath(getMaskValueForIndex(container.maskRepeat, index),
                                    position, maskImageSize,
                                    maskPositioningArea, maskPaintingArea)
    IN  IF isError(maskImageSize)
        THEN Thrown(maskImageSize)
        ELSE [error |-> "",
              path |-> [k \in DOMAIN path |->
                          [x |-> RSub(path[k].x, maskPositioningArea.left),
                           y |-> RSub(path[k].y, maskPositioningArea.top)]],
              x |-> Round(position[1]),
              y |-> Round(position[2]),
              width |-> maskImageSize[1],
              height |-> maskImageSize[2]]


(***************************************************************************)
(* The document rendered: the StackingContext tree parseStackingContexts   *)
(* hands to renderStack.  A context is named by its root element; the      *)
(* seven child lists are those of the StackingContext class.  Element 4 is *)
(* an iframe whose own document is the context rooted at element 20.       *)
(***************************************************************************)
RootNode == 1

LayeredNode == 9

negativeZIndex(n) == CASE n = 1 -> <<2>> [] OTHER -> <<>>

nonInlineLevel(n) == CASE n = 1 -> <<3, 4>> [] n = 2 -> <<11>> [] n = 20 -> <<21>> [] OTHER -> <<>>

nonPositionedFloats(n) == CASE n = 1 -> <<5>> [] OTHER -> <<>>

nonPositionedInlineLevel(n) == CASE n = 1 -> <<6>> [] OTHER -> <<>>

inlineLevel(n) == CASE n = 1 -> <<7>> [] n = 20 -> <<22>> [] OTHER -> <<>>

zeroOrAutoZIndexOrTransformedOrOpacity(n) == CASE n = 1 -> <<8>> [] OTHER -> <<>>

positiveZIndex(n) == CASE n = 1 -> <<9, 10>> [] n = 2 -> <<12>> [] OTHER -> <<>>

Nodes == {1, 2, 3, 4, 5, 6, 7, 8, 9, 10, 11, 12, 20, 21, 22}

\* the class of the container: ImageElementContainer, IFrameElementContainer
\* (with its tree), or a plain ElementContainer
Kind(n) == CASE n = 3 -> "image" [] n = 4 -> "iframe" [] OTHER -> "plain"

IframeTree(n) == CASE n = 4 -> 20 [] OTHER -> 0

\* container.backgroundColor of the iframe element
IframeBackgroundColor == <<255, 255, 255, 255>>

textNodes(n) == IF Kind(n) = "plain" THEN 1 ELSE 0

\* display: list-item with a list-style-image url
hasListStyleImage(n) == n = 10

\* paint.getEffects(target): the effects of the element and its ancestors
\* that apply to the target
getEffects(n, target) ==
    CASE n = 3 /\ target = "content" -> <<"clip3">>
      [] n = 4 /\ target = "content" -> <<"clip4">>
      [] n = 8 -> <<"opacity8">>
      [] n = 9 /\ target = "background" -> <<"transform9">>
      [] n = 9 /\ target = "content" -> <<"transform9", "clip9">>
      [] n = 11 -> <<"clip2">>
      [] n = 12 -> <<"clip2", "opacity12">>
      [] n = 21 -> <<"clip20">>
      [] OTHER -> <<>>

\* styles.isVisible() taken as true of every element
isVisibleAlways(n) == TRUE

isVisible(n) == n \notin hidden

hasBackgroundColor(n) == n \in {1, 9, 20}

backgroundImageOf(n) ==
    CASE n = LayeredNode -> backgroundImage
      [] n = 21 -> <<"url">>
      [] OTHER -> <<>>

backgroundSizeOf(n) ==
    CASE n = LayeredNode -> backgroundSize
      [] OTHER -> <<<<Ident(AUTO)>>>>

maskImageOf(n) == CASE n = LayeredNode -> maskImage [] OTHER -> <<>>

boxShadow(n) == CASE n = LayeredNode -> 1 [] OTHER -> 0

\* the sides (0..3) that have a style, a non-transparent colour and a width
bordersOf(n) == CASE n = LayeredNode -> <<0, 2>> [] n = 2 -> <<0>> [] OTHER -> <<>>

\* background-position / mask-position of the layered element, in px
PositionList == <<<<10, 20>>, <<5, 0>>>>

MaskSizeList == <<<<Ident(COVER)>>, <<Px(30)>>>>

ElementBounds == Box(Num(0), Num(0), Num(100), Num(100))

\* the layered element as calculateMaskRendering reads it
LayeredContainer ==
    [bounds |-> ElementBounds,
     borderWidth |-> <<0, 0, 0, 0>>,
     padding |-> <<0, 0, 0, 0>>,
     maskOrigin |-> <<BORDER_BOX>>,
     maskClip |-> <<BORDER_BOX>>,
     maskSize |-> MaskSizeList,
     maskPosition |-> [k \in DOMAIN PositionList |->
                         <<Px(PositionList[k][1]), Px(PositionList[k][2])>>],
     maskRepeat |-> <<REPEAT>>]

\* the bitmap cache.match resolves to
Image == [width |-> 50, height |-> 25]

ImageIntrinsic == <<Num(Image.width), Num(Image.height), Norm(Image.width, Image.height)>>

(***************************************************************************)
(* calculateTempBackgroundRendering: the size and the offset of background *)
(* layer `index`, or the error the size algorithm raises.                  *)
(***************************************************************************)
Rendering(size, position) ==
    IF isError(size)
    THEN [error |-> size[1], x |-> 0, y |-> 0, width |-> Num(0), height |-> Num(0)]
    ELSE [error |-> "", x |-> position[1], y |-> position[2],
          width |-> size[1], height |-> size[2]]

calculateTempBackgroundRendering(n, index, intrinsicSize) ==
    LET backgroundImageSize == calculateMaskSize(getMaskValueForIndex(backgroundSizeOf(n), index),
                                                 intrinsicSize, ElementBounds)
    IN  Rendering(backgroundImageSize, getMaskValueForIndex(PositionList, index))

(***************************************************************************)
(* Renderer state                                                          *)
(***************************************************************************)
\* a Color is the packed 32-bit rgba value, written <<r, g, b, a>>;
\* options.backgroundColor === null is NoColor
NoColor == <<>>

\* no offscreen canvas has been created yet
NoCanvas == [node |-> 0, transform |-> <<0, 0>>]

\* a CanvasRenderer after its constructor: no active effect, no saved state
NewRenderer == [effects |-> <<>>, saves |-> <<>>]

(***************************************************************************)
(* State of a render pass before render() is called; the helper            *)
(* specifications below leave it there.                                    *)
(***************************************************************************)
RenderIdle ==
    /\ backgroundImage = <<>>
    /\ backgroundSize = <<>>
    /\ maskImage = <<>>
    /\ hidden = {}
    /\ optionsBackgroundColor = NoColor
    /\ status = "idle"
    /\ agenda = <<>>
    /\ pending = <<>>
    /\ renderers = <<>>
    /\ temp = NoCanvas
    /\ ops = <<>>
    /\ requests = <<>>
    /\ logged = <<>>

RECURSIVE SeqsUpTo(_, _)
SeqsUpTo(S, n) ==
    IF n = 0
    THEN {<<>>}
    ELSE LET shorter == SeqsUpTo(S, n - 1)
         IN  shorter \cup {Append(q, x) : q \in {r \in shorter : Len(r) = n - 1}, x \in S}

(***************************************************************************)
(* SpecIndex: getMaskValueForIndex on every list of up to MaxLen values    *)
(* and every index up to MaxIdx.                                           *)
(***************************************************************************)
ListValues == {"a", "b", "c"}

InitIndex ==
    /\ RenderIdle
    /\ fnPc = "in"
    /\ fnArgs \in [values : SeqsUpTo(ListValues, MaxLen), index : 0..MaxIdx]
    /\ fnRet = Null

CallGetMaskValueForIndex ==
    /\ fnPc = "in"
    /\ fnRet' = getMaskValueForIndex(fnArgs.values, fnArgs.index)
    /\ fnPc' = "out"
    /\ UNCHANGED <<fnArgs, renderVars>>

NextIndex == CallGetMaskValueForIndex

SpecIndex == InitIndex /\ [][NextIndex]_vars

\* C8: the lookup returns element i when i is within the list and element 0
\* (not element i modulo the length) when i is past the end of a non-empty
\* list; a list of length 1 yields its single value for indices 0, 1 and 2.
WrapRuleFirstValue ==
    fnPc = "out" =>
        LET values == fnArgs.values
            i == fnArgs.index
        IN  /\ i < Len(values) => fnRet = values[i + 1]
            /\ (i >= Len(values) /\ Len(values) > 0) => fnRet = values[1]
            /\ (Len(values) = 1 /\ i \in 0..2) => fnRet = values[1]

\* C8 witness: a two-value list read at index 3 gave its first value, where
\* index modulo length would have given the second.
WrapRuleWitness ==
    /\ fnPc = "out"
    /\ fnArgs.values = <<"a", "b">>
    /\ fnArgs.index = 3
    /\ fnRet = "a"

(***************************************************************************)
(* SpecSize: calculateMaskSize on every size of up to MaxTokens tokens,    *)
(* every combination of known / unknown intrinsic values and a grid of     *)
(* positioning areas (degenerate ones included).                           *)
(***************************************************************************)
SizeTokens == {Ident(AUTO), Ident(CONTAIN), Ident(COVER), Ident("inherit"), Px(30), Pct(50)}

IntrinsicDims == {Null, Num(50), Num(80)}

IntrinsicRatios == {Null} \cup {Norm(n, d) : n \in 1..MaxRatio, d \in 1..MaxRatio}

AreaDims == {Num(0), Num(100), Num(200)}

InitSize ==
    /\ RenderIdle
    /\ fnPc = "in"
    /\ fnArgs \in [size : SeqsUpTo(SizeTokens, MaxTokens),
                   intrinsic : IntrinsicDims \X IntrinsicDims \X IntrinsicRatios,
                   bounds : [width : AreaDims, height : AreaDims]]
    /\ fnRet = Null

CallCalculateMaskSize ==
    /\ fnPc = "in"
    /\ fnRet' = calculateMaskSize(fnArgs.size, fnArgs.intrinsic, fnArgs.bounds)
    /\ fnPc' = "out"
    /\ UNCHANGED <<fnArgs, renderVars>>

NextSize == CallCalculateMaskSize

SpecSize == InitSize /\ [][NextSize]_vars

\* C9: for contain / cover with a known intrinsic ratio R the result keeps
\* the ratio (width = R * height), has one dimension equal to the area's,
\* and fits inside the area (contain) or fills it (cover).
ContainCoverKeepsRatio ==
    (/\ fnPc = "out"
     /\ Len(fnArgs.size) > 0
     /\ isIdentToken(fnArgs.size[1])
     /\ fnArgs.size[1].value \in {CONTAIN, COVER}
     /\ hasIntrinsicValue(fnArgs.intrinsic[3]))
    => /\ isSize(fnRet)
       /\ LET width == fnRet[1]
              height == fnRet[2]
              area == fnArgs.bounds
              R == fnArgs.intrinsic[3]
          IN  /\ width = RMul(R, height)
              /\ (width = area.width \/ height = area.height)
              /\ fnArgs.size[1].value = CONTAIN =>
                    (RLe(width, area.width) /\ RLe(height, area.height))
              /\ fnArgs.size[1].value = COVER =>
                    (RLe(area.width, width) /\ RLe(area.height, height))

\* C9 witness: contain, area (200,100), R = 2 returned (200,100).
ContainWitness ==
    /\ fnPc = "out"
    /\ fnArgs.size = <<Ident(CONTAIN)>>
    /\ fnArgs.bounds = [width |-> Num(200), height |-> Num(100)]
    /\ fnArgs.intrinsic[3] = Num(2)
    /\ fnRet = <<Num(200), Num(100)>>

isAutoSize(size) ==
    /\ Len(size) > 0
    /\ isAuto(size[1])
    /\ (Len(size) < 2 \/ isAuto(size[2]))

\* C10: for auto / auto auto the result is the intrinsic size when both
\* intrinsic dimensions are known; the area when nothing intrinsic is known;
\* the one known dimension plus the other derived from the ratio when a
\* ratio is known; the one known dimension plus the area's other dimension
\* when no ratio is known.
AutoSizeCases ==
    (fnPc = "out" /\ isAutoSize(fnArgs.size)) =>
        LET iw == fnArgs.intrinsic[1]
            ih == fnArgs.intrinsic[2]
            R == fnArgs.intrinsic[3]
            area == fnArgs.bounds
        IN  /\ (iw # Null /\ ih # Null) => fnRet = <<iw, ih>>
            /\ (iw = Null /\ ih = Null /\ R = Null) => fnRet = <<area.width, area.height>>
            /\ (iw # Null /\ ih = Null /\ R # Null) => fnRet = <<iw, RDiv(iw, R)>>
            /\ (iw = Null /\ ih # Null /\ R # Null) => fnRet = <<RMul(ih, R), ih>>
            /\ (iw # Null /\ ih = Null /\ R = Null) => fnRet = <<iw, area.height>>
            /\ (iw = Null /\ ih # Null /\ R = Null) => fnRet = <<area.width, ih>>

\* C10 witness: auto with only the intrinsic height (50) and ratio 2 known
\* returned (100, 50) in an area of another size.
AutoSizeWitness ==
    /\ fnPc = "out"
    /\ fnArgs.size = <<Ident(AUTO)>>
    /\ fnArgs.intrinsic = <<Null, Num(50), Num(2)>>
    /\ fnArgs.bounds = [width |-> Num(200), height |-> Num(200)]
    /\ fnRet = <<Num(100), Num(50)>>

\* a size with one length / percentage axis and the other axis auto or left
\* out: "w" when the first axis is the explicit one, "h" when the second is
explicitAxis(size) ==
    IF Len(size) > 0 /\ isLengthPercentage(size[1]) /\ (Len(size) < 2 \/ isAuto(size[2]))
    THEN "w"
    ELSE IF Len(size) = 2 /\ isAuto(size[1]) /\ isLengthPercentage(size[2])
    THEN "h"
    ELSE "none"

\* C11: with one explicit axis, the other auto or omitted, and a known
\* intrinsic ratio R, the explicit axis is resolved against the area's
\* dimension on that axis and the other axis follows by R:
\* height = width / R, or width = height * R.
ExplicitAxisThenRatio ==
    (fnPc = "out" /\ hasIntrinsicValue(fnArgs.intrinsic[3])) =>
        LET size == fnArgs.size
            R == fnArgs.intrinsic[3]
            area == fnArgs.bounds
        IN  /\ explicitAxis(size) = "w" =>
                LET width == getAbsoluteValue(size[1], area.width)
                IN  fnRet = <<width, RDiv(width, R)>>
            /\ explicitAxis(size) = "h" =>
                LET height == getAbsoluteValue(size[2], area.height)
                IN  fnRet = <<RMul(height, R), height>>

\* C11 witness: `auto 50%` in an area of (100, 200) with R = 1/2 returned
\* (50, 100), and not the area's width or a percentage of it.
ExplicitAxisWitness ==
    /\ fnPc = "out"
    /\ fnArgs.size = <<Ident(AUTO), Pct(50)>>
    /\ fnArgs.bounds = [width |-> Num(100), height |-> Num(200)]
    /\ fnArgs.intrinsic[3] = Norm(1, 2)
    /\ fnRet = <<Num(50), Num(100)>>

\* C12: with one explicit axis, the other auto or omitted, and no intrinsic
\* ratio, the auto axis is the image's intrinsic dimension on that axis when
\* it is known (scaled by explicit / intrinsic of the other axis when both
\* intrinsic dimensions are known) and the area's dimension otherwise.
AutoAxisFromIntrinsic ==
    (fnPc = "out" /\ ~hasIntrinsicValue(fnArgs.intrinsic[3])) =>
        LET size == fnArgs.size
            iw == fnArgs.intrinsic[1]
            ih == fnArgs.intrinsic[2]
            area == fnArgs.bounds
        IN  /\ explicitAxis(size) = "w" =>
                LET width == getAbsoluteValue(size[1], area.width)
                IN  fnRet = <<width,
                              IF iw # Null /\ ih # Null
                              THEN RMul(RDiv(width, iw), ih)
                              ELSE IF ih # Null THEN ih ELSE area.height>>
            /\ explicitAxis(size) = "h" =>
                LET height == getAbsoluteValue(size[2], area.height)
                IN  fnRet = <<IF iw # Null /\ ih # Null
                              THEN RMul(RDiv(height, ih), iw)
                              ELSE IF iw # Null THEN iw ELSE area.width,
                              height>>


\* a keyword: an identifier token
Keyword(token) == token.type = "ident"

\* the token is a keyword other than those of `allowed`
OtherKeyword(token, allowed) == Keyword(token) /\ token.value \notin allowed

\* the sizes for which, without an intrinsic ratio, no size can be found:
\* the first token a keyword other than auto / contain / cover, or the first
\* a length, percentage or auto with a second keyword other than auto
Unresolvable(size) ==
    /\ Len(size) >= 1
    /\ \/ OtherKeyword(size[1], {AUTO, CONTAIN, COVER})
       \/ /\ ~Keyword(size[1]) \/ size[1].value = AUTO
          /\ Len(size) >= 2
          /\ OtherKeyword(size[2], {AUTO})

\* C28: calculateMaskSize raises nothing when the intrinsic ratio is known
\* or the size list is empty (the result is then (0, 0)); without a ratio
\* it raises 'Unable to calculate mask-size' exactly on the sizes of
\* Unresolvable.
RaisesOnlyWithoutRatio ==
    fnPc = "out" =>
        /\ hasIntrinsicValue(fnArgs.intrinsic[3]) => ~isError(fnRet)
        /\ Len(fnArgs.size) = 0 => fnRet = <<Num(0), Num(0)>>
        /\ ~hasIntrinsicValue(fnArgs.intrinsic[3]) =>
               /\ isError(fnRet) <=> Unresolvable(fnArgs.size)
               /\ isError(fnRet) => fnRet = SizeError

(***************************************************************************)
(* SpecRendering: calculateMaskRendering on every container, layer index   *)
(* and intrinsic size drawn from the sets below.                           *)
(***************************************************************************)
ContainerBounds ==
    {Box(left, top, Num(size[1]), Num(size[2])) :
        left \in {Num(0), Num(8), <<5, 2>>}, top \in {Num(0), Num(4), <<7, 2>>},
        size \in {<<200, 100>>, <<206, 104>>}}

BorderWidths == {<<0, 0, 0, 0>>, <<1, 2, 3, 4>>}

Paddings == {<<0, 0, 0, 0>>, <<5, 5, 5, 5>>}

Boxes == {BORDER_BOX, PADDING_BOX, CONTENT_BOX}

Repeats == {REPEAT, NO_REPEAT, REPEAT_X, REPEAT_Y}

Positions == {<<Px(10), Pct(20)>>, <<Pct(50)>>, <<Px(0), Px(7)>>}

Sizes == {<<Px(50), Px(50)>>, <<Ident(AUTO)>>, <<Pct(30)>>, <<Ident("inherit")>>}

Intrinsics == {<<Null, Null, Null>>, <<Num(50), Num(50), Num(1)>>, <<Num(50), Num(25), Num(2)>>}

InitRendering ==
    /\ RenderIdle
    /\ fnPc = "in"
    /\ \E bounds \in ContainerBounds, borderWidth \in BorderWidths, padding \in Paddings,
          maskOrigin, maskClip \in Boxes, maskRepeat \in Repeats,
          maskPosition \in Positions, maskSize \in Sizes,
          intrinsic \in Intrinsics, index \in 0..1 :
        fnArgs = [container |-> [bounds |-> bounds,
                                 borderWidth |-> borderWidth,
                                 padding |-> padding,
                                 maskOrigin |-> <<maskOrigin>>,
                                 maskClip |-> <<BORDER_BOX, maskClip>>,
                                 maskSize |-> <<maskSize>>,
                                 maskPosition |-> <<maskPosition>>,
                                 maskRepeat |-> <<maskRepeat>>],
                  index |-> index,
                  intrinsic |-> intrinsic]
    /\ fnRet = Null

CallCalculateMaskRendering ==
    /\ fnPc = "in"
    /\ fnRet' = calculateMaskRendering(fnArgs.container, fnArgs.index, fnArgs.intrinsic)
    /\ fnPc' = "out"
    /\ UNCHANGED <<fnArgs, renderVars>>

NextRendering == CallCalculateMaskRendering

SpecRendering == InitRendering /\ [][NextRendering]_vars

\* the positioning area of the layer the call is about
ArgPositioningArea ==
    calculateMaskPositioningArea(getMaskValueForIndex(fnArgs.container.maskOrigin, fnArgs.index),
                                 fnArgs.container)

\* vertex k of the returned path, in the coordinates of the element's page
TileVertex(k) ==
    <<RAdd(fnRet.path[k].x, ArgPositioningArea.left),
      RAdd(fnRet.path[k].y, ArgPositioningArea.top)>>

\* repeat-x, position (10, 20%), image resolved to 50 x 50, positioning area
\* 200 x 100
RepeatXExample ==
    /\ fnPc = "out"
    /\ getMaskValueForIndex(fnArgs.container.maskRepeat, fnArgs.index) = REPEAT_X
    /\ getMaskValueForIndex(fnArgs.container.maskPosition, fnArgs.index) = <<Px(10), Pct(20)>>
    /\ ArgPositioningArea.width = Num(200)
    /\ ArgPositioningArea.height = Num(100)
    /\ fnRet.error = ""
    /\ fnRet.width = Num(50)
    /\ fnRet.height = Num(50)

\* the tile rectangle whose top-left is `dy` below the positioning area's
\* top-left, as wide as the positioning area and 50 high, on whole pixels
TileRectangleAt(dy) ==
    LET area == ArgPositioningArea
        left == Num(Round(area.left))
        top == Num(Round(RAdd(area.top, Num(dy))))
        right == Num(Round(RAdd(area.left, area.width)))
        bottom == Num(Round(RAdd(area.top, Num(dy + 50))))
    IN  /\ TileVertex(1) = <<left, top>>
        /\ TileVertex(2) = <<right, top>>
        /\ TileVertex(3) = <<right, bottom>>
        /\ TileVertex(4) = <<left, bottom>>

\* C13 as stated: in the repeat-x example the tile rectangle has its
\* top-left at (positioningArea.left, positioningArea.top + 20), spans the
\* positioning area's full width and is 50 high.
RepeatXTileAtTwenty == RepeatXExample => TileRectangleAt(20)

\* C13 amended: in the repeat-x example the tile rectangle has its top-left
\* at (positioningArea.left, positioningArea.top + 10), 20% being resolved
\* against the area's height less the image's height (100 - 50); it spans
\* the positioning area's full width and is 50 high (each coordinate on the
\* nearest whole pixel).
RepeatXTileAtTen == RepeatXExample => TileRectangleAt(10)

\* C13 witness: the example on an element at (8, 4) with borders, the
\* padding box being the positioning area: top-left vertex (12, 15).
RepeatXWitness ==
    /\ RepeatXExample
    /\ fnArgs.container.maskOrigin = <<PADDING_BOX>>
    /\ fnArgs.container.bounds.left = Num(8)
    /\ fnArgs.container.bounds.top = Num(4)
    /\ TileVertex(1) = <<Num(12), Num(15)>>


\* the arguments calculateMaskRendering hands to calculateMaskRepeatPath
ArgRepeat == getMaskValueForIndex(fnArgs.container.maskRepeat, fnArgs.index)

ArgPaintingArea ==
    calculateMaskPaintingArea(getMaskValueForIndex(fnArgs.container.maskClip, fnArgs.index),
                              fnArgs.container)

\* a position component: a length as it is, a percentage of the room the
\* image leaves on that axis of the positioning area
Resolved(token, areaExtent, imageExtent) ==
    IF token.type = "percentage"
    THEN RDiv(RMul(Num(token.number), RSub(areaExtent, imageExtent)), Num(100))
    ELSE Num(token.number)

ArgPosition ==
    LET tuple == getMaskValueForIndex(fnArgs.container.maskPosition, fnArgs.index)
        second == IF Len(tuple) >= 2 THEN tuple[2] ELSE tuple[1]
    IN  <<Resolved(tuple[1], ArgPositioningArea.width, fnRet.width),
          Resolved(second, ArgPositioningArea.height, fnRet.height)>>

\* the edges <<left, top, right, bottom>> of the tile in the coordinates of
\* the element's page, before rounding
TileEdges ==
    LET area == ArgPositioningArea
        paint == ArgPaintingArea
        x == RAdd(area.left, ArgPosition[1])
        y == RAdd(area.top, ArgPosition[2])
    IN  CASE ArgRepeat = REPEAT_X ->
               <<area.left, y, RAdd(area.left, area.width), RAdd(y, fnRet.height)>>
          [] ArgRepeat = REPEAT_Y ->
               <<x, area.top, RAdd(x, fnRet.width), RAdd(area.top, area.height)>>
          [] ArgRepeat = NO_REPEAT ->
               <<x, y, RAdd(x, fnRet.width), RAdd(y, fnRet.height)>>
          [] OTHER ->
               <<paint.left, paint.top, RAdd(paint.left, paint.width),
                 RAdd(paint.top, paint.height)>>

\* C22: every vertex of the path calculateMaskRendering returns is the tile
\* coordinate in page coordinates rounded to the nearest integer and then
\* moved by minus the positioning area's left and top; the offsets returned
\* are the rounded position, a percentage being resolved against the
\* positioning area's size less the image's size.
RoundedThenTranslated ==
    (fnPc = "out" /\ fnRet.error = "") =>
        LET area == ArgPositioningArea
            left == Num(Round(TileEdges[1]))
            top == Num(Round(TileEdges[2]))
            right == Num(Round(TileEdges[3]))
            bottom == Num(Round(TileEdges[4]))
            moved(x, y) == [x |-> RSub(x, area.left), y |-> RSub(y, area.top)]
        IN  /\ fnRet.path = <<moved(left, top), moved(right, top),
                              moved(right, bottom), moved(left, bottom)>>
            /\ fnRet.x = Round(ArgPosition[1])
            /\ fnRet.y = Round(ArgPosition[2])

\* C22 witness: a 50 x 50 image placed once at 50% on the border box of an
\* element at (2.5, 3.5) of size 200 x 100: offsets (75, 25), and the
\* top-left vertex (78 - 2.5, 29 - 3.5).
RoundedThenTranslatedWitness ==
    /\ fnPc = "out"
    /\ fnRet.error = ""
    /\ ArgRepeat = NO_REPEAT
    /\ ArgPositioningArea = Box(<<5, 2>>, <<7, 2>>, Num(200), Num(100))
    /\ getMaskValueForIndex(fnArgs.container.maskPosition, fnArgs.index) = <<Pct(50)>>
    /\ fnRet.width = Num(50)
    /\ fnRet.height = Num(50)
    /\ fnRet.x = 75
    /\ fnRet.y = 25
    /\ fnRet.path[1] = [x |-> <<151, 2>>, y |-> <<51, 2>>]


(***************************************************************************)
(* SpecArea: calculateMaskPositioningArea and calculateMaskPaintingArea on *)
(* every box keyword and element drawn from the sets of SpecRendering.     *)
(***************************************************************************)
InitArea ==
    /\ RenderIdle
    /\ fnPc = "in"
    /\ \E bounds \in ContainerBounds, borderWidth \in BorderWidths, padding \in Paddings,
          maskOrigin, maskClip \in Boxes :
        fnArgs = [maskOrigin |-> maskOrigin,
                  maskClip |-> maskClip,
                  element |-> [bounds |-> bounds, borderWidth |-> borderWidth,
                               padding |-> padding]]
    /\ fnRet = Null

CallCalculateMaskAreas ==
    /\ fnPc = "in"
    /\ fnRet' = [positioning |-> calculateMaskPositioningArea(fnArgs.maskOrigin, fnArgs.element),
                 painting |-> calculateMaskPaintingArea(fnArgs.maskClip, fnArgs.element)]
    /\ fnPc' = "out"
    /\ UNCHANGED <<fnArgs, renderVars>>

NextArea == CallCalculateMaskAreas

SpecArea == InitArea /\ [][NextArea]_vars

\* `bounds` moved in by <<top, right, bottom, left>> on its four sides
Inset(bounds, by) ==
    Box(RAdd(bounds.left, Num(by[4])), RAdd(bounds.top, Num(by[1])),
        RSub(bounds.width, Num(by[2] + by[4])), RSub(bounds.height, Num(by[1] + by[3])))

\* the box a keyword stands for on the element of the call
BoxOf(keyword) ==
    LET element == fnArgs.element
    IN  CASE keyword = BORDER_BOX -> element.bounds
          [] keyword = PADDING_BOX -> Inset(element.bounds, element.borderWidth)
          [] keyword = CONTENT_BOX ->
               Inset(Inset(element.bounds, element.borderWidth), element.padding)

\* C23: the positioning area and the painting area are the same function of
\* the box keyword: border-box gives the element's bounds, padding-box the
\* bounds inset by the border widths, content-box those inset further by
\* the padding; equal keywords give equal areas.
AreasSameFunctionOfBox ==
    fnPc = "out" =>
        /\ fnRet.positioning = BoxOf(fnArgs.maskOrigin)
        /\ fnRet.painting = BoxOf(fnArgs.maskClip)
        /\ fnArgs.maskOrigin = fnArgs.maskClip => fnRet.positioning = fnRet.painting

\* C23 witness: content-box for both on an element at (8, 4) of size
\* 200 x 100 with borders 1, 2, 3, 4 and padding 5: both areas are
\* (17, 10, 184, 86).
AreasWitness ==
    /\ fnPc = "out"
    /\ fnArgs.maskOrigin = CONTENT_BOX
    /\ fnArgs.maskClip = CONTENT_BOX
    /\ fnArgs.element.bounds = Box(Num(8), Num(4), Num(200), Num(100))
    /\ fnArgs.element.borderWidth = <<1, 2, 3, 4>>
    /\ fnArgs.element.padding = <<5, 5, 5, 5>>
    /\ fnRet.positioning = Box(Num(17), Num(10), Num(184), Num(86))
    /\ fnRet.painting = fnRet.positioning


(***************************************************************************)
(* SpecRepeatPath: calculateMaskRepeatPath on every repeat mode, position, *)
(* image size, positioning area and painting area drawn from the sets      *)
(* below; coordinates off the pixel grid are among them.                   *)
(***************************************************************************)
PathPositions == {<<Num(0), Num(0)>>, <<Num(10), <<7, 2>>>>, <<<<-5, 2>>, Num(3)>>}

PathSizes == {<<Num(50), Num(50)>>, <<<<61, 2>>, Num(20)>>}

PathAreas ==
    {Box(Num(0), Num(0), Num(200), Num(100)),
     Box(<<5, 2>>, Num(4), Num(184), <<169, 2>>),
     Box(Num(8), <<7, 2>>, Num(100), Num(60))}

InitRepeatPath ==
    /\ RenderIdle
    /\ fnPc = "in"
    /\ fnArgs \in [repeat : Repeats, position : PathPositions, size : PathSizes,
                   maskPositioningArea : PathAreas, maskPaintingArea : PathAreas]
    /\ fnRet = Null

CallCalculateMaskRepeatPath ==
    /\ fnPc = "in"
    /\ fnRet' = calculateMaskRepeatPath(fnArgs.repeat, fnArgs.position, fnArgs.size,
                                        fnArgs.maskPositioningArea, fnArgs.maskPaintingArea)
    /\ fnPc' = "out"
    /\ UNCHANGED <<fnArgs, renderVars>>

NextRepeatPath == CallCalculateMaskRepeatPath

SpecRepeatPath == InitRepeatPath /\ [][NextRepeatPath]_vars

\* the four corners, clockwise from the top-left, of the rectangle between
\* the edges given, each edge on the nearest whole pixel
Rectangle(left, top, right, bottom) ==
    LET l == Num(Round(left))
        t == Num(Round(top))
        r == Num(Round(right))
        b == Num(Round(bottom))
    IN  <<[x |-> l, y |-> t], [x |-> r, y |-> t], [x |-> r, y |-> b], [x |-> l, y |-> b]>>

\* C21: the path of calculateMaskRepeatPath is, for repeat-x, the rectangle
\* over the positioning area's full width from top + y to top + y + height;
\* for repeat-y, the one over its full height from left + x to
\* left + x + width; for no-repeat, the placement rectangle of the image at
\* (left + x, top + y) with the image's width and height; for any other
\* mode, the painting area.
RepeatPathPerMode ==
    fnPc = "out" =>
        LET area == fnArgs.maskPositioningArea
            paint == fnArgs.maskPaintingArea
            x == RAdd(area.left, fnArgs.position[1])
            y == RAdd(area.top, fnArgs.position[2])
            width == fnArgs.size[1]
            height == fnArgs.size[2]
        IN  /\ fnArgs.repeat = REPEAT_X =>
                fnRet = Rectangle(area.left, y, RAdd(area.left, area.width), RAdd(y, height))
            /\ fnArgs.repeat = REPEAT_Y =>
                fnRet = Rectangle(x, area.top, RAdd(x, width), RAdd(area.top, area.height))
            /\ fnArgs.repeat = NO_REPEAT =>
                fnRet = Rectangle(x, y, RAdd(x, width), RAdd(y, height))
            /\ fnArgs.repeat \notin {REPEAT_X, REPEAT_Y, NO_REPEAT} =>
                fnRet = Rectangle(paint.left, paint.top, RAdd(paint.left, paint.width),
                                  RAdd(paint.top, paint.height))

\* C21 witness: repeat-x at position (10, 3.5) with a 30.5 x 20 image on the
\* positioning area (2.5, 4, 184, 84.5), the painting area being another
\* box: the rectangle from (3, 8) to (187, 28).
RepeatPathWitness ==
    /\ fnPc = "out"
    /\ fnArgs.repeat = REPEAT_X
    /\ fnArgs.position = <<Num(10), <<7, 2>>>>
    /\ fnArgs.size = <<<<61, 2>>, Num(20)>>
    /\ fnArgs.maskPositioningArea = Box(<<5, 2>>, Num(4), Num(184), <<169, 2>>)
    /\ fnArgs.maskPaintingArea = Box(Num(0), Num(0), Num(200), Num(100))
    /\ fnRet = <<Vector(3, 8), Vector(187, 8), Vector(187, 28), Vector(3, 28)>>


(***************************************************************************)
(* The dash pattern of renderDashedDottedBorder: from the border's width,  *)
(* the length of the side and the style, the line dash handed to the       *)
(* context before the side is stroked.  Lengths are exact rationals.       *)
(***************************************************************************)
DASHED == "dashed"

DOTTED == "dotted"

RAbs(a) == <<Abs(a[1]), a[2]>>

\* Math.floor
Floor(a) == a[1] \div a[2]

\* the quotient of a division by zero
Infinity == <<1, 0>>

\* lines 1328-1333
nominalDashLength(width, style) ==
    IF style = DOTTED
    THEN width
    ELSE IF RLt(width, Num(3)) THEN RMul(width, Num(3)) ELSE RMul(width, Num(2))

nominalSpaceLength(width, style) ==
    IF style = DOTTED
    THEN width
    ELSE IF RLt(width, Num(3)) THEN RMul(width, Num(2)) ELSE width

\* line 1343 without the space added to the length
numberOfDashesOfLengthOnly(length, dashLength, spaceLength) ==
    Floor(RDiv(length, RAdd(dashLength, spaceLength)))

\* line 1343
numberOfDashes(length, dashLength, spaceLength) ==
    Floor(RDiv(RAdd(length, spaceLength), RAdd(dashLength, spaceLength)))

\* line 1344
minSpace(length, dashLength, spaceLength) ==
    LET n == numberOfDashes(length, dashLength, spaceLength)
    IN  IF n - 1 = 0
        THEN Infinity
        ELSE RDiv(RSub(length, RMul(Num(n), dashLength)), Num(n - 1))

\* line 1345
maxSpace(length, dashLength, spaceLength) ==
    LET n == numberOfDashes(length, dashLength, spaceLength)
    IN  IF n = 0
        THEN Infinity
        ELSE RDiv(RSub(length, RMul(Num(n + 1), dashLength)), Num(n))

\* lines 1346-1349, the comparison the other way round
distributedSpaceFarthest(length, dashLength, spaceLength) ==
    LET min == minSpace(length, dashLength, spaceLength)
        max == maxSpace(length, dashLength, spaceLength)
    IN  IF min = Infinity \/ max = Infinity
        THEN Infinity
        ELSE IF RLe(max, Num(0))
                \/ RLt(RAbs(RSub(spaceLength, max)), RAbs(RSub(spaceLength, min)))
        THEN min
        ELSE max

\* lines 1346-1349
distributedSpace(length, dashLength, spaceLength) ==
    LET min == minSpace(length, dashLength, spaceLength)
        max == maxSpace(length, dashLength, spaceLength)
    IN  IF min = Infinity \/ max = Infinity
        THEN Infinity
        ELSE IF RLe(max, Num(0))
                \/ RLt(RAbs(RSub(spaceLength, min)), RAbs(RSub(spaceLength, max)))
        THEN min
        ELSE max

\* lines 1352-1358: the line dash set, none leaving the stroke solid;
\* `dashes` is numberOfDashes where line 1343 computes it
Dash(useLineDash, style, dashLength, spaceLength, dashes) ==
    [useLineDash |-> useLineDash,
     numberOfDashes |-> dashes,
     dashLength |-> dashLength,
     spaceLength |-> spaceLength,
     lineDash |-> IF ~useLineDash
                  THEN <<>>
                  ELSE IF style = DOTTED
                  THEN <<Num(0), IF spaceLength = Infinity
                                 THEN Infinity ELSE RAdd(dashLength, spaceLength)>>
                  ELSE <<dashLength, spaceLength>>]

\* lines 1328-1358, the space left as it is in the second branch
renderDashedDottedBorderSpaceKept(width, length, style) ==
    LET dashLength == nominalDashLength(width, style)
        spaceLength == nominalSpaceLength(width, style)
        twoDashes == RMul(dashLength, Num(2))
        multiplier == RDiv(length, RAdd(twoDashes, spaceLength))
    IN  IF RLe(length, twoDashes)
        THEN Dash(FALSE, style, dashLength, spaceLength, 0)
        ELSE IF RLe(length, RAdd(twoDashes, spaceLength))
        THEN Dash(TRUE, style, RMul(dashLength, multiplier), spaceLength, 0)
        ELSE Dash(TRUE, style, dashLength, distributedSpace(length, dashLength, spaceLength),
                  numberOfDashes(length, dashLength, spaceLength))

\* lines 1328-1358
renderDashedDottedBorder(width, length, style) ==
    LET dashLength == nominalDashLength(width, style)
        spaceLength == nominalSpaceLength(width, style)
        twoDashes == RMul(dashLength, Num(2))
        multiplier == RDiv(length, RAdd(twoDashes, spaceLength))
    IN  IF RLe(length, twoDashes)
        THEN Dash(FALSE, style, dashLength, spaceLength, 0)
        ELSE IF RLe(length, RAdd(twoDashes, spaceLength))
        THEN Dash(TRUE, style, RMul(dashLength, multiplier), RMul(spaceLength, multiplier), 0)
        ELSE Dash(TRUE, style, dashLength, distributedSpace(length, dashLength, spaceLength),
                  numberOfDashes(length, dashLength, spaceLength))

(***************************************************************************)
(* SpecDash: renderDashedDottedBorder on every width and side length, in   *)
(* half pixels, up to the bounds below, for both styles.  The caller       *)
(* (line 1254) passes positive widths only.                                *)
(***************************************************************************)
MaxWidth == 4

MaxSide == 100

InitDash ==
    /\ RenderIdle
    /\ fnPc = "in"
    /\ \E w \in 1..(2 * MaxWidth), l \in 0..(2 * MaxSide), style \in {DASHED, DOTTED} :
        fnArgs = [width |-> Norm(w, 2), length |-> Norm(l, 2), style |-> style]
    /\ fnRet = Null

CallRenderDashedDottedBorder ==
    /\ fnPc = "in"
    /\ fnRet' = renderDashedDottedBorder(fnArgs.width, fnArgs.length, fnArgs.style)
    /\ fnPc' = "out"
    /\ UNCHANGED <<fnArgs, renderVars>>

NextDash == CallRenderDashedDottedBorder

SpecDash == InitDash /\ [][NextDash]_vars


\* the nominal dash d and gap g of a border of a width and style
NominalDash ==
    IF fnArgs.style = DOTTED
    THEN fnArgs.width
    ELSE RMul(fnArgs.width, Num(IF RLt(fnArgs.width, Num(3)) THEN 3 ELSE 2))

NominalGap ==
    IF fnArgs.style = DOTTED
    THEN fnArgs.width
    ELSE RMul(fnArgs.width, Num(IF RLt(fnArgs.width, Num(3)) THEN 2 ELSE 1))

TwoDashes == RMul(NominalDash, Num(2))

TwoDashesOneGap == RAdd(TwoDashes, NominalGap)

\* no line dash is set: the side is stroked solid
SolidSide == ~fnRet.useLineDash /\ fnRet.lineDash = <<>>

\* a line dash is set, dash and gap being the nominal ones times
\* length / (2d + g), so that two dashes and one gap make the length
ScaledSide ==
    LET factor == RDiv(fnArgs.length, TwoDashesOneGap)
    IN  /\ fnRet.useLineDash
        /\ fnRet.lineDash # <<>>
        /\ fnRet.dashLength = RMul(NominalDash, factor)
        /\ fnRet.spaceLength = RMul(NominalGap, factor)
        /\ RAdd(RMul(fnRet.dashLength, Num(2)), fnRet.spaceLength) = fnArgs.length
        /\ fnArgs.style = DASHED => fnRet.lineDash = <<fnRet.dashLength, fnRet.spaceLength>>

\* C24 as stated: a side shorter than 2d is stroked solid; a side of at
\* least 2d and shorter than 2d + g gets dash and gap scaled by
\* length / (2d + g).
ShortSideAsStated ==
    fnPc = "out" =>
        /\ RLt(fnArgs.length, TwoDashes) => SolidSide
        /\ (RLe(TwoDashes, fnArgs.length) /\ RLt(fnArgs.length, TwoDashesOneGap)) => ScaledSide

\* C24 amended: a side of at most 2d is stroked solid; a side longer than
\* 2d and of at most 2d + g gets dash and gap scaled by length / (2d + g),
\* two dashes and one gap filling the side exactly.
ShortSideSolidOrScaled ==
    fnPc = "out" =>
        /\ RLe(fnArgs.length, TwoDashes) => SolidSide
        /\ (RLt(TwoDashes, fnArgs.length) /\ RLe(fnArgs.length, TwoDashesOneGap)) => ScaledSide

\* C24 witness: a dashed side of length 18 and width 4 (d = 8, g = 4):
\* dash 7.2 and gap 3.6.
ShortSideWitness ==
    /\ fnPc = "out"
    /\ fnArgs = [width |-> Num(4), length |-> Num(18), style |-> DASHED]
    /\ fnRet.lineDash = <<<<36, 5>>, <<18, 5>>>>

GeneralBranch == fnPc = "out" /\ RLt(TwoDashesOneGap, fnArgs.length)

\* `count` dashes of the nominal length with count - 1 gaps of `gap` make
\* the side exactly
Fills(count, gap) ==
    RAdd(RMul(Num(count), NominalDash), RMul(Num(count - 1), gap)) = fnArgs.length

\* C25: on a side longer than 2d + g, with N = floor((length + g) / (d + g)),
\* the dash keeps its nominal length and the gap set is the exact solution
\* for N dashes or the one for N + 1 dashes, whichever deviates least from
\* g; at least two dashes result.
GapClosestExactSolution ==
    GeneralBranch =>
        LET d == NominalDash
            g == NominalGap
            length == fnArgs.length
            N == Floor(RDiv(RAdd(length, g), RAdd(d, g)))
            fewer == RDiv(RSub(length, RMul(Num(N), d)), Num(N - 1))
            more == RDiv(RSub(length, RMul(Num(N + 1), d)), Num(N))
            deviation(gap) == RAbs(RSub(g, gap))
            gap == fnRet.spaceLength
        IN  /\ N >= 2
            /\ fnRet.useLineDash
            /\ fnRet.dashLength = d
            /\ gap \in {fewer, more}
            /\ Fills(N, gap) \/ Fills(N + 1, gap)
            /\ RLe(deviation(gap), deviation(fewer))
            /\ RLe(deviation(gap), deviation(more))
            /\ fnArgs.style = DASHED => fnRet.lineDash = <<d, gap>>

\* C25 witness: a dashed side of length 100 and width 4 starts from d = 8,
\* g = 4 and N = 8; the gaps 36/7 (8 dashes) and 3.5 (9 dashes) solve it,
\* and 3.5 is set.
GapWitness ==
    /\ fnPc = "out"
    /\ fnArgs = [width |-> Num(4), length |-> Num(100), style |-> DASHED]
    /\ fnRet.numberOfDashes = 8
    /\ fnRet.lineDash = <<Num(8), <<7, 2>>>>
    /\ Fills(9, fnRet.spaceLength)


\* C29: in the general branch (side longer than 2d + g, width positive)
\* numberOfDashes is at least 2, so that neither the division by
\* numberOfDashes - 1 nor the one by numberOfDashes is a division by zero,
\* and the gap set on the context is strictly positive.
GeneralBranchDividesSafely ==
    GeneralBranch =>
        /\ RLt(Num(0), fnArgs.width)
        /\ fnRet.numberOfDashes >= 2
        /\ fnRet.spaceLength # Infinity
        /\ RLt(Num(0), fnRet.spaceLength)
        /\ fnRet.lineDash[2] # Infinity
        /\ RLt(Num(0), fnRet.lineDash[2])

\* C29 witness: a dashed side of length 8.5 and width 1 (d = 3, g = 2) is
\* just over 2d + g: numberOfDashes is 2, the gap for three dashes would be
\* negative, and the gap 2.5 for two dashes is set.
GeneralBranchWitness ==
    /\ fnPc = "out"
    /\ fnArgs = [width |-> Num(1), length |-> <<17, 2>>, style |-> DASHED]
    /\ GeneralBranch
    /\ fnRet.numberOfDashes = 2
    /\ fnRet.lineDash = <<Num(3), <<5, 2>>>>


(***************************************************************************)
(* The mask merge of renderTempBackgroundMask: image data is a sequence of *)
(* pixels <<r, g, b, a>>, each channel 0..255.                             *)
(***************************************************************************)
\* lines 855-862: newImageData[i + 3] = maskImageData[i + 3]
mergeMaskCopyPixel(newImageData, maskImageData, maskImageLength) ==
    IF maskImageLength > 0
    THEN [i \in DOMAIN newImageData |-> maskImageData[i]]
    ELSE newImageData

mergeMask(newImageData, maskImageData, maskImageLength) ==
    IF maskImageLength > 0
    THEN [i \in DOMAIN newImageData |->
            <<newImageData[i][1], newImageData[i][2], newImageData[i][3], maskImageData[i][4]>>]
    ELSE newImageData

MaxPixels == 2

BackgroundPixels == {<<255, 0, 0, 255>>, <<0, 0, 0, 0>>, <<0, 255, 0, 128>>, <<10, 20, 30, 255>>}

MaskPixels == {<<0, 0, 0, 0>>, <<0, 0, 0, 128>>, <<255, 255, 255, 255>>, <<0, 0, 0, 255>>}

InitMerge ==
    /\ RenderIdle
    /\ fnPc = "in"
    /\ \E length \in 1..MaxPixels :
        fnArgs \in [newImageData : [1..length -> BackgroundPixels],
                    maskImageData : [1..length -> MaskPixels],
                    maskImageLength : 0..MaxMaskLayers]
    /\ fnRet = Null

CallMergeMask ==
    /\ fnPc = "in"
    /\ fnRet' = mergeMask(fnArgs.newImageData, fnArgs.maskImageData, fnArgs.maskImageLength)
    /\ fnPc' = "out"
    /\ UNCHANGED <<fnArgs, renderVars>>

NextMerge == CallMergeMask

SpecMerge == InitMerge /\ [][NextMerge]_vars

Masked == fnPc = "out" /\ fnArgs.maskImageLength > 0

\* C14: on an opaque background pixel the merge leaves the background's RGB
\* and sets the alpha to the mask's alpha at that pixel.
MergeKeepsRgbTakesMaskAlpha ==
    Masked =>
        \A i \in DOMAIN fnRet :
            fnArgs.newImageData[i][4] = 255 =>
                /\ fnRet[i][4] = fnArgs.maskImageData[i][4]
                /\ SubSeq(fnRet[i], 1, 3) = SubSeq(fnArgs.newImageData[i], 1, 3)

\* C14 witness: background (255,0,0,255) under mask alpha 128 became
\* (255,0,0,128).
MergeWitness ==
    /\ Masked
    /\ \E i \in DOMAIN fnRet :
        /\ fnArgs.newImageData[i] = <<255, 0, 0, 255>>
        /\ fnArgs.maskImageData[i][4] = 128
        /\ fnRet[i] = <<255, 0, 0, 128>>

\* C15: a transparent background pixel (0,0,0,0) under mask alpha 255 is
\* copied through unchanged: the merged pixel is (0,0,0,0).
TransparentPixelCopiedThrough ==
    Masked =>
        \A i \in DOMAIN fnRet :
            (fnArgs.newImageData[i] = <<0, 0, 0, 0>> /\ fnArgs.maskImageData[i][4] = 255)
                => fnRet[i] = <<0, 0, 0, 0>>


(***************************************************************************)
(* renderTempBackgroundMask on pixels.  The offscreen canvas holds the     *)
(* composited background; each mask layer is "drawn" (a url image that     *)
(* resolved), "failed" (a url image that did not) or "other" (not a url    *)
(* image); a drawn layer fills the canvas with `pattern`.  The result is   *)
(* the canvas after putImageData and the main surface after the drawImage  *)
(* of lines 1193-1199 on to it.                                            *)
(***************************************************************************)
Transparent == <<0, 0, 0, 0>>

\* a canvas drawing `source` over `destination`, channels 0..255
sourceOver(source, destination) ==
    LET as == source[4]
        ad == destination[4]
        alpha == (as * 255 + ad * (255 - as) + 127) \div 255
        channel(c) ==
            (source[c] * as * 255 + destination[c] * ad * (255 - as) + (alpha * 255) \div 2)
                \div (alpha * 255)
    IN  IF alpha = 0
        THEN Transparent
        ELSE <<channel(1), channel(2), channel(3), alpha>>

\* lines 831-854: the layers index, index - 1, .., 0 drawn in that order
RECURSIVE drawMaskLayers(_, _, _, _)
drawMaskLayers(canvas, layers, index, pattern) ==
    IF index < 0
    THEN canvas
    ELSE drawMaskLayers(IF layers[index + 1] = "drawn"
                        THEN [i \in DOMAIN canvas |-> sourceOver(pattern[i], canvas[i])]
                        ELSE canvas,
                        layers, index - 1, pattern)

\* lines 817-865, without `tempCanvas.width = backgroundWidth` at line 829
renderTempBackgroundMaskNotCleared(canvas, layers, pattern) ==
    IF Len(layers) = 0
    THEN canvas
    ELSE LET newImageData == canvas
             maskImageData == drawMaskLayers(canvas, layers, Len(layers) - 1, pattern)
         IN  mergeMask(newImageData, maskImageData, Len(layers))

\* lines 817-865
renderTempBackgroundMask(canvas, layers, pattern) ==
    IF Len(layers) = 0
    THEN canvas
    ELSE LET newImageData == canvas
             cleared == [i \in DOMAIN canvas |-> Transparent]
             maskImageData == drawMaskLayers(cleared, layers, Len(layers) - 1, pattern)
         IN  mergeMask(newImageData, maskImageData, Len(layers))

\* the main surface under the element before its background is drawn
MainSurface(canvas) == [i \in DOMAIN canvas |-> <<255, 255, 255, 255>>]

\* lines 1193-1199: ctx.drawImage(tempCanvas, ...)
drawImage(canvas, surface) == [i \in DOMAIN canvas |-> sourceOver(canvas[i], surface[i])]

MaskLayerStates == {"drawn", "failed", "other"}

InitMask ==
    /\ RenderIdle
    /\ fnPc = "in"
    /\ \E length \in 1..MaxPixels :
        fnArgs \in [canvas : [1..length -> BackgroundPixels],
                    maskImage : SeqsUpTo(MaskLayerStates, MaxMaskLayers),
                    pattern : [1..length -> MaskPixels]]
    /\ fnRet = Null

CallRenderTempBackgroundMask ==
    /\ fnPc = "in"
    /\ LET canvas == renderTempBackgroundMask(fnArgs.canvas, fnArgs.maskImage, fnArgs.pattern)
       IN  fnRet' = [canvas |-> canvas,
                     surface |-> drawImage(canvas, MainSurface(canvas))]
    /\ fnPc' = "out"
    /\ UNCHANGED <<fnArgs, renderVars>>

NextMask == CallRenderTempBackgroundMask

SpecMask == InitMask /\ [][NextMask]_vars

NoMaskLayerDrawn ==
    /\ Len(fnArgs.maskImage) > 0
    /\ \A k \in DOMAIN fnArgs.maskImage : fnArgs.maskImage[k] # "drawn"

\* C26: with a non-empty mask-image list of which no layer is drawn, every
\* pixel of the offscreen background layer gets alpha 0 and the main
\* surface is left as it was; with an empty mask-image list the layer is
\* left exactly as composited.
UndrawnMaskHidesBackground ==
    fnPc = "out" =>
        /\ NoMaskLayerDrawn =>
               /\ \A i \in DOMAIN fnRet.canvas : fnRet.canvas[i][4] = 0
               /\ fnRet.surface = MainSurface(fnArgs.canvas)
        /\ Len(fnArgs.maskImage) = 0 => fnRet.canvas = fnArgs.canvas

\* C26 witness: an opaque red pixel under a mask list of one failed url
\* image and one image that is not a url: the pixel ends with alpha 0 and
\* the surface stays white.
UndrawnMaskWitness ==
    /\ fnPc = "out"
    /\ fnArgs.maskImage = <<"failed", "other">>
    /\ fnArgs.canvas[1] = <<255, 0, 0, 255>>
    /\ fnRet.canvas[1] = <<255, 0, 0, 0>>
    /\ fnRet.surface[1] = <<255, 255, 255, 255>>


(***************************************************************************)
(* The render pass.  `agenda` is the continuation of the chain of async    *)
(* calls: its head is the code that runs next, a loop is its remaining     *)
(* iterations.  `await cache.match(url)` parks the whole continuation in   *)
(* the request until the request settles.                                  *)
(***************************************************************************)
sceneVars == <<backgroundImage, backgroundSize, maskImage, hidden, optionsBackgroundColor>>

Task(op, n, index) == [op |-> op, node |-> n, index |-> index]

Current == renderers[Len(renderers)]

SetCurrent(renderer) == [renderers EXCEPT ![Len(renderers)] = renderer]

NextTask == agenda[1]

Rest == Tail(agenda)

Running(op) == status = "running" /\ agenda # <<>> /\ NextTask.op = op

Translate(transform, x, y) == <<transform[1] + x, transform[2] + y>>

DrawOp(kind, n, target, surface, index, origin, pattern, depth, renderer) ==
    [kind |-> kind, node |-> n, target |-> target, surface |-> surface,
     index |-> index, origin |-> origin, pattern |-> pattern, depth |-> depth,
     effects |-> renderer.effects, saves |-> renderer.saves]

\* lines 143-181: pop every active effect (one ctx.restore each), then
\* ctx.save and push for each new effect
applyEffectsNoPop(renderer, effects) ==
    [effects |-> renderer.effects \o effects, saves |-> renderer.saves \o effects]

applyEffects(renderer, effects) ==
    [effects |-> effects,
     saves |-> SubSeq(renderer.saves, 1, Len(renderer.saves) - Len(renderer.effects))
               \o effects]

\* `await this.context.cache.match(...)`: the caller and all its callers stop
\* until the request settles
awaitDetached(request, continuation) ==
    [pending |-> Append(pending, [request EXCEPT !.held = <<>>]), agenda |-> continuation]

await(request, continuation) ==
    [pending |-> Append(pending, [request EXCEPT !.held = continuation]), agenda |-> <<>>]

Request(kind, n, index) == [kind |-> kind, node |-> n, index |-> index, held |-> <<>>]

RequestId(request) == [kind |-> request.kind, node |-> request.node, index |-> request.index]

\* lines 710-712, 837-839, 361-363, 497-499: the catch block logs and the
\* function goes on without an image; what it re-runs is nothing
catchMatchErrorRetry(request) ==
    IF Len(SelectSeq(requests, LAMBDA r : r = RequestId(request))) < 2
          /\ request.kind \in {"background-image", "mask-image"}
    THEN <<[op |-> IF request.kind = "mask-image" THEN "maskImage" ELSE "renderTempBackgroundImage",
            node |-> request.node, index |-> request.index]>>
    ELSE <<>>

catchMatchError(request) == <<>>

Remove(seq, k) == SubSeq(seq, 1, k - 1) \o SubSeq(seq, k + 1, Len(seq))

LogEntry(message, n, index) == [message |-> message, node |-> n, index |-> index]

\* lines 527-576: the seven steps, as the calls renderStackContent makes
renderStackContentFloatsFirst(n) ==
    <<Task("renderNodeBackgroundAndBorders", n, 0)>>
    \o [k \in 1..Len(negativeZIndex(n)) |-> Task("renderStack", negativeZIndex(n)[k], 0)]
    \o [k \in 1..Len(nonPositionedFloats(n)) |-> Task("renderStack", nonPositionedFloats(n)[k], 0)]
    \o <<Task("renderNodeContent", n, 0)>>
    \o [k \in 1..Len(nonInlineLevel(n)) |-> Task("renderNode", nonInlineLevel(n)[k], 0)]
    \o [k \in 1..Len(nonPositionedInlineLevel(n)) |->
            Task("renderStack", nonPositionedInlineLevel(n)[k], 0)]
    \o [k \in 1..Len(inlineLevel(n)) |-> Task("renderNode", inlineLevel(n)[k], 0)]
    \o [k \in 1..Len(zeroOrAutoZIndexOrTransformedOrOpacity(n)) |->
            Task("renderStack", zeroOrAutoZIndexOrTransformedOrOpacity(n)[k], 0)]
    \o [k \in 1..Len(positiveZIndex(n)) |-> Task("renderStack", positiveZIndex(n)[k], 0)]

renderStackContent(n) ==
    <<Task("renderNodeBackgroundAndBorders", n, 0)>>
    \o [k \in 1..Len(negativeZIndex(n)) |-> Task("renderStack", negativeZIndex(n)[k], 0)]
    \o <<Task("renderNodeContent", n, 0)>>
    \o [k \in 1..Len(nonInlineLevel(n)) |-> Task("renderNode", nonInlineLevel(n)[k], 0)]
    \o [k \in 1..Len(nonPositionedFloats(n)) |-> Task("renderStack", nonPositionedFloats(n)[k], 0)]
    \o [k \in 1..Len(nonPositionedInlineLevel(n)) |->
            Task("renderStack", nonPositionedInlineLevel(n)[k], 0)]
    \o [k \in 1..Len(inlineLevel(n)) |-> Task("renderNode", inlineLevel(n)[k], 0)]
    \o [k \in 1..Len(zeroOrAutoZIndexOrTransformedOrOpacity(n)) |->
            Task("renderStack", zeroOrAutoZIndexOrTransformedOrOpacity(n)[k], 0)]
    \o [k \in 1..Len(positiveZIndex(n)) |-> Task("renderStack", positiveZIndex(n)[k], 0)]

\* `let index = length - 1; for (layer of list.slice(0).reverse()) {...; index--}`
layerLoopForward(op, n, length) == [k \in 1..length |-> Task(op, n, k - 1)]

layerLoop(op, n, length) == [k \in 1..length |-> Task(op, n, length - k)]

\* lines 1186-1199: the background-image layers, then the mask, then the
\* blit of the offscreen canvas
compositeBackgroundMaskFirst(n) ==
    <<Task("renderTempBackgroundMask", n, 0)>>
    \o layerLoop("renderTempBackgroundImage", n, Len(backgroundImageOf(n)))
    \o <<Task("drawBackground", n, 0)>>

compositeBackground(n) ==
    layerLoop("renderTempBackgroundImage", n, Len(backgroundImageOf(n)))
    \o <<Task("renderTempBackgroundMask", n, 0),
         Task("drawBackground", n, 0)>>

\* lines 1252-1278: one fill or stroke per painted side
renderBorders(n, depth, renderer) ==
    [k \in 1..Len(bordersOf(n)) |->
        DrawOp("border", n, "background", "canvas", bordersOf(n)[k],
               <<0, 0>>, <<0, 0>>, depth, renderer)]

\* lines 1216-1249: one fill per shadow, inside its own save / restore
renderBoxShadows(n, depth, renderer) ==
    [k \in 1..boxShadow(n) |->
        DrawOp("box-shadow", n, "background", "canvas", boxShadow(n) - k,
               <<0, 0>>, <<0, 0>>, depth, renderer)]

\* lines 389-402: `await iframeRenderer.render(container.tree)`, then
\* drawImage of the canvas it returns
iframeRenderNotAwaited(n) ==
    <<Task("drawIframe", n, 0),
      Task("renderStack", IframeTree(n), 0),
      Task("renderEnd", IframeTree(n), 0)>>

iframeRender(n) ==
    <<Task("renderStack", IframeTree(n), 0),
      Task("renderEnd", IframeTree(n), 0),
      Task("drawIframe", n, 0)>>

\* lines 1392-1395: `if (this.options.backgroundColor)` then fillRect
renderPrefill(color, n, depth) ==
    IF color # NoColor /\ color # <<0, 0, 0, 0>>
    THEN <<DrawOp("prefill", n, "viewport", "canvas", 0, <<0, 0>>, <<0, 0>>, depth, NewRenderer)>>
    ELSE <<>>


(***************************************************************************)
(* Actions                                                                 *)
(***************************************************************************)
\* lines 1391-1399: render(element) up to `await this.renderStack(stack)`
Render ==
    /\ status = "idle"
    /\ renderers # <<>>
    /\ status' = "running"
    /\ ops' = ops \o renderPrefill(optionsBackgroundColor, RootNode, 1)
    /\ agenda' = <<Task("renderStack", RootNode, 0), Task("renderEnd", RootNode, 0)>>
    /\ UNCHANGED <<sceneVars, pending, renderers, temp, requests, logged, fnVars>>

\* lines 183-188
RenderStack ==
    /\ Running("renderStack")
    /\ agenda' = IF isVisible(NextTask.node)
                 THEN <<Task("renderStackContent", NextTask.node, 0)>> \o Rest
                 ELSE Rest
    /\ UNCHANGED <<sceneVars, status, pending, renderers, temp, ops, requests, logged, fnVars>>

\* lines 527-576
RenderStackContent ==
    /\ Running("renderStackContent")
    /\ agenda' = renderStackContent(NextTask.node) \o Rest
    /\ UNCHANGED <<sceneVars, status, pending, renderers, temp, ops, requests, logged, fnVars>>

\* lines 190-199
RenderNode ==
    /\ Running("renderNode")
    /\ agenda' = IF isVisible(NextTask.node)
                 THEN <<Task("renderNodeBackgroundAndBorders", NextTask.node, 0),
                        Task("renderNodeContent", NextTask.node, 0)>> \o Rest
                 ELSE Rest
    /\ UNCHANGED <<sceneVars, status, pending, renderers, temp, ops, requests, logged, fnVars>>

\* lines 1122-1186 (and 1252-1278 when there is neither background nor shadow)
RenderNodeBackgroundAndBorders ==
    /\ Running("renderNodeBackgroundAndBorders")
    /\ LET n == NextTask.node
           depth == Len(renderers)
           applied == applyEffects(Current, getEffects(n, "background"))
           hasBackground == hasBackgroundColor(n) \/ Len(backgroundImageOf(n)) > 0
           clipped == [applied EXCEPT !.saves = Append(@, "save")]
       IN  IF hasBackground \/ boxShadow(n) > 0
           THEN /\ renderers' = SetCurrent(clipped)
                /\ temp' = [node |-> n, transform |-> <<0, 0>>]
                /\ ops' = IF hasBackgroundColor(n)
                          THEN Append(ops, DrawOp("fillRect", n, "background", "temp", 0,
                                                  <<0, 0>>, <<0, 0>>, depth, clipped))
                          ELSE ops
                /\ agenda' = compositeBackground(n) \o Rest
           ELSE /\ renderers' = SetCurrent(applied)
                /\ ops' = ops \o renderBorders(n, depth, applied)
                /\ agenda' = Rest
                /\ UNCHANGED temp
    /\ UNCHANGED <<sceneVars, status, pending, requests, logged, fnVars>>

\* lines 704-709: a url layer of the loop, up to `await cache.match(url)`
RequestBackgroundImage ==
    /\ Running("renderTempBackgroundImage")
    /\ backgroundImageOf(NextTask.node)[NextTask.index + 1] = "url"
    /\ LET request == Request("background-image", NextTask.node, NextTask.index)
           awaited == await(request, Rest)
       IN  /\ pending' = awaited.pending
           /\ agenda' = awaited.agenda
           /\ requests' = Append(requests, RequestId(request))
    /\ UNCHANGED <<sceneVars, status, renderers, temp, ops, logged, fnVars>>

\* lines 750-814: a linear- or radial-gradient layer of the loop
RenderGradientLayer ==
    /\ Running("renderTempBackgroundImage")
    /\ LET n == NextTask.node
           index == NextTask.index
           layer == backgroundImageOf(n)[index + 1]
           rendering == calculateTempBackgroundRendering(n, index, <<Null, Null, Null>>)
       IN  /\ layer # "url"
           /\ IF rendering.error # ""
              THEN /\ status' = "rejected"
                   /\ agenda' = <<>>
                   /\ UNCHANGED ops
              ELSE /\ agenda' = Rest
                   /\ ops' = IF rendering.width[1] > 0 /\ rendering.height[1] > 0
                             THEN Append(ops, DrawOp(layer, n, "background", "temp", index,
                                                     temp.transform,
                                                     Translate(temp.transform, rendering.x, rendering.y),
                                                     Len(renderers), Current))
                             ELSE ops
                   /\ UNCHANGED status
    /\ UNCHANGED <<sceneVars, pending, renderers, temp, requests, logged, fnVars>>

\* lines 709-749: cache.match(url) of a background layer settles
MatchBackgroundImage ==
    /\ status = "running"
    /\ \E k \in DOMAIN pending, image \in BOOLEAN :
        LET request == pending[k]
            n == request.node
            index == request.index
            rendering == calculateTempBackgroundRendering(n, index, ImageIntrinsic)
        IN  /\ request.kind = "background-image"
            /\ pending' = Remove(pending, k)
            /\ IF ~image
               THEN /\ logged' = Append(logged, LogEntry("Error loading background-image", n, index))
                    /\ agenda' = catchMatchError(request) \o request.held \o agenda
                    /\ UNCHANGED <<status, ops, temp>>
               ELSE IF rendering.error # ""
               THEN /\ status' = "rejected"
                    /\ agenda' = <<>>
                    /\ UNCHANGED <<ops, temp, logged>>
               ELSE /\ ops' = Append(ops, DrawOp("url", n, "background", "temp", index,
                                                 temp.transform,
                                                 Translate(temp.transform, rendering.x, rendering.y),
                                                 Len(renderers), Current))
                    \* lines 746-748: translate(x, y); fill(); translate(x, y)
                    /\ temp' = [temp EXCEPT !.transform =
                                   Translate(Translate(@, rendering.x, rendering.y),
                                             rendering.x, rendering.y)]
                    /\ agenda' = request.held \o agenda
                    /\ UNCHANGED <<status, logged>>
    /\ UNCHANGED <<sceneVars, renderers, requests, fnVars>>

\* lines 817-830: renderTempBackgroundMask up to its loop
RenderTempBackgroundMask ==
    /\ Running("renderTempBackgroundMask")
    /\ LET n == NextTask.node
       IN  IF Len(maskImageOf(n)) = 0
           THEN /\ agenda' = Rest
                /\ UNCHANGED temp
           ELSE \* `tempCanvas.width = backgroundWidth` clears the canvas and
                \* resets its context
                /\ temp' = [temp EXCEPT !.transform = <<0, 0>>]
                /\ agenda' = layerLoop("maskImage", n, Len(maskImageOf(n)))
                             \o <<Task("mergeMask", n, 0)>> \o Rest
    /\ UNCHANGED <<sceneVars, status, pending, renderers, ops, requests, logged, fnVars>>

\* lines 831-836: a url layer of the mask loop, up to `await cache.match(url)`
RequestMaskImage ==
    /\ Running("maskImage")
    /\ maskImageOf(NextTask.node)[NextTask.index + 1] = "url"
    /\ LET request == Request("mask-image", NextTask.node, NextTask.index)
           awaited == await(request, Rest)
       IN  /\ pending' = awaited.pending
           /\ agenda' = awaited.agenda
           /\ requests' = Append(requests, RequestId(request))
    /\ UNCHANGED <<sceneVars, status, renderers, temp, ops, logged, fnVars>>

\* lines 831-854: a mask layer that is not a url image is passed over
SkipMaskImage ==
    /\ Running("maskImage")
    /\ maskImageOf(NextTask.node)[NextTask.index + 1] # "url"
    /\ agenda' = Rest
    /\ UNCHANGED <<sceneVars, status, pending, renderers, temp, ops, requests, logged, fnVars>>

\* lines 836-853: cache.match(url) of a mask layer settles
MatchMaskImage ==
    /\ status = "running"
    /\ \E k \in DOMAIN pending, image \in BOOLEAN :
        LET request == pending[k]
            n == request.node
            index == request.index
            rendering == calculateMaskRendering(LayeredContainer, index, ImageIntrinsic)
        IN  /\ request.kind = "mask-image"
            /\ pending' = Remove(pending, k)
            /\ IF ~image
               THEN /\ logged' = Append(logged, LogEntry("Error loading mask-image", n, index))
                    /\ agenda' = catchMatchError(request) \o request.held \o agenda
                    /\ UNCHANGED <<status, ops>>
               ELSE IF rendering.error # ""
               THEN /\ status' = "rejected"
                    /\ agenda' = <<>>
                    /\ UNCHANGED <<ops, logged>>
               ELSE \* renderRepeat: translate(x, y); fill(); translate(-x, -y)
                    /\ ops' = Append(ops, DrawOp("mask", n, "background", "temp", index,
                                                 temp.transform,
                                                 Translate(temp.transform, rendering.x, rendering.y),
                                                 Len(renderers), Current))
                    /\ agenda' = request.held \o agenda
                    /\ UNCHANGED <<status, logged>>
    /\ UNCHANGED <<sceneVars, renderers, temp, requests, fnVars>>

\* lines 855-864: the mask's alpha replaces the background's, putImageData
MergeMask ==
    /\ Running("mergeMask")
    /\ ops' = Append(ops, DrawOp("putImageData", NextTask.node, "background", "temp", 0,
                                 <<0, 0>>, <<0, 0>>, Len(renderers), Current))
    /\ temp' = [temp EXCEPT !.transform = <<0, 0>>]
    /\ agenda' = Rest
    /\ UNCHANGED <<sceneVars, status, pending, renderers, requests, logged, fnVars>>

\* lines 1193-1278: blit the offscreen canvas, ctx.restore, shadows, borders
DrawBackground ==
    /\ Running("drawBackground")
    /\ LET n == NextTask.node
           depth == Len(renderers)
           restored == [Current EXCEPT !.saves = SubSeq(@, 1, Len(@) - 1)]
       IN  /\ ops' = Append(ops, DrawOp("drawImage", n, "background", "canvas", 0,
                                        <<0, 0>>, <<0, 0>>, depth, Current))
                     \o renderBoxShadows(n, depth, restored)
                     \o renderBorders(n, depth, restored)
           /\ renderers' = SetCurrent(restored)
    /\ agenda' = Rest
    /\ UNCHANGED <<sceneVars, status, pending, temp, requests, logged, fnVars>>


\* lines 348-403 and 488-500: renderNodeContent up to its first suspension
RenderNodeContent ==
    /\ Running("renderNodeContent")
    /\ LET n == NextTask.node
           depth == Len(renderers)
           applied == applyEffects(Current, getEffects(n, "content"))
           text == [k \in 1..textNodes(n) |->
                      DrawOp("text", n, "content", "canvas", k - 1,
                             <<0, 0>>, <<0, 0>>, depth, applied)]
       IN  /\ ops' = IF Kind(n) = "iframe" /\ IframeTree(n) # 0
                     THEN ops \o text \o renderPrefill(IframeBackgroundColor, IframeTree(n), depth + 1)
                     ELSE ops \o text
           /\ IF Kind(n) = "image"
              THEN LET request == Request("image", n, 0)
                       awaited == await(request, Rest)
                   IN  /\ pending' = awaited.pending
                       /\ agenda' = awaited.agenda
                       /\ requests' = Append(requests, RequestId(request))
                       /\ renderers' = SetCurrent(applied)
              ELSE IF Kind(n) = "iframe" /\ IframeTree(n) # 0
              THEN \* new CanvasRenderer(...); await iframeRenderer.render(tree)
                   /\ renderers' = Append(SetCurrent(applied), NewRenderer)
                   /\ agenda' = iframeRender(n) \o Rest
                   /\ UNCHANGED <<pending, requests>>
              ELSE IF hasListStyleImage(n)
              THEN LET request == Request("list-style-image", n, 0)
                       awaited == await(request, Rest)
                   IN  /\ pending' = awaited.pending
                       /\ agenda' = awaited.agenda
                       /\ requests' = Append(requests, RequestId(request))
                       /\ renderers' = SetCurrent(applied)
              ELSE /\ renderers' = SetCurrent(applied)
                   /\ agenda' = Rest
                   /\ UNCHANGED <<pending, requests>>
    /\ UNCHANGED <<sceneVars, status, temp, logged, fnVars>>

\* lines 357-364 and 491-499: cache.match of an <img> or of a
\* list-style-image settles
MatchContentImage ==
    /\ status = "running"
    /\ \E k \in DOMAIN pending, image \in BOOLEAN :
        LET request == pending[k]
            n == request.node
        IN  /\ request.kind \in {"image", "list-style-image"}
            /\ pending' = Remove(pending, k)
            /\ agenda' = request.held \o agenda
            /\ IF image
               THEN /\ ops' = Append(ops, DrawOp(request.kind, n, "content", "canvas", 0,
                                                 <<0, 0>>, <<0, 0>>, Len(renderers), Current))
                    /\ UNCHANGED logged
               ELSE /\ logged' = Append(logged, LogEntry("Error loading " \o request.kind, n, 0))
                    /\ UNCHANGED ops
    /\ UNCHANGED <<sceneVars, status, renderers, temp, requests, fnVars>>

\* lines 1400-1401: applyEffects([]); return this.canvas
RenderEnd ==
    /\ Running("renderEnd")
    /\ renderers' = SetCurrent(applyEffects(Current, <<>>))
    /\ status' = IF Len(renderers) = 1 THEN "resolved" ELSE status
    /\ agenda' = Rest
    /\ UNCHANGED <<sceneVars, pending, temp, ops, requests, logged, fnVars>>

\* lines 389-402: the iframe's renderer has returned its canvas; blit it
DrawIframe ==
    /\ Running("drawIframe")
    /\ Len(renderers) > 1
    /\ LET outer == SubSeq(renderers, 1, Len(renderers) - 1)
       IN  /\ renderers' = outer
           /\ ops' = Append(ops, DrawOp("iframe", NextTask.node, "content", "canvas", 0,
                                        <<0, 0>>, <<0, 0>>, Len(outer), outer[Len(outer)]))
    /\ agenda' = Rest
    /\ UNCHANGED <<sceneVars, status, pending, temp, requests, logged, fnVars>>

(***************************************************************************)
(* Spec: one render pass over the document, for every background / mask    *)
(* layer list of the layered element up to the bounds, and for a choice of *)
(* hidden elements and viewport background colours.                        *)
(***************************************************************************)
BackgroundLayers ==
    {[image |-> "url", size |-> <<Ident(AUTO)>>],
     [image |-> "linear-gradient", size |-> <<Ident(AUTO)>>],
     [image |-> "linear-gradient", size |-> <<Ident("inherit")>>],
     [image |-> "radial-gradient", size |-> <<Pct(50), Ident(AUTO)>>]}

MaskLayers == {"url", "linear-gradient"}

HiddenChoices == {{}, {2}, {3}, {7, 20}}

BackgroundColors == {NoColor, <<255, 0, 0, 255>>, <<0, 0, 0, 0>>, <<255, 0, 0, 0>>}

Init ==
    /\ \/ /\ \E layers \in SeqsUpTo(BackgroundLayers, MaxBgLayers) :
                /\ backgroundImage = [k \in 1..Len(layers) |-> layers[k].image]
                /\ backgroundSize = [k \in 1..Len(layers) |-> layers[k].size]
          /\ maskImage \in {<<>>, <<"url">>}
          /\ hidden = {}
          /\ optionsBackgroundColor = NoColor
       \/ /\ backgroundImage = <<"url">>
          /\ backgroundSize = <<<<Ident(AUTO)>>>>
          /\ maskImage \in SeqsUpTo(MaskLayers, MaxMaskLayers)
          /\ hidden = {}
          /\ optionsBackgroundColor = NoColor
       \/ /\ backgroundImage = <<"url">>
          /\ backgroundSize = <<<<Ident(AUTO)>>>>
          /\ maskImage = <<"url">>
          /\ hidden \in HiddenChoices
          /\ optionsBackgroundColor \in BackgroundColors
    /\ status = "idle"
    /\ agenda = <<>>
    /\ pending = <<>>
    /\ renderers = <<NewRenderer>>
    /\ temp = NoCanvas
    /\ ops = <<>>
    /\ requests = <<>>
    /\ logged = <<>>
    /\ fnPc = "idle"
    /\ fnArgs = Null
    /\ fnRet = Null

Next ==
    \/ Render
    \/ RenderStack
    \/ RenderStackContent
    \/ RenderNode
    \/ RenderNodeBackgroundAndBorders
    \/ RequestBackgroundImage
    \/ RenderGradientLayer
    \/ MatchBackgroundImage
    \/ RenderTempBackgroundMask
    \/ RequestMaskImage
    \/ SkipMaskImage
    \/ MatchMaskImage
    \/ MergeMask
    \/ DrawBackground
    \/ RenderNodeContent
    \/ MatchContentImage
    \/ RenderEnd
    \/ DrawIframe

Spec == Init /\ [][Next]_vars


(***************************************************************************)
(* Structure of the document, for stating the claims                       *)
(***************************************************************************)
\* the child contexts and nodes of a context, in the order of the CSS
\* painting steps 2..7
ChildList(n) ==
    negativeZIndex(n) \o nonInlineLevel(n) \o nonPositionedFloats(n)
    \o nonPositionedInlineLevel(n) \o inlineLevel(n)
    \o zeroOrAutoZIndexOrTransformedOrOpacity(n) \o positiveZIndex(n)

Range(seq) == {seq[k] : k \in DOMAIN seq}

RECURSIVE Subtree(_)
Subtree(n) ==
    {n} \cup UNION {Subtree(c) : c \in Range(ChildList(n))}
        \cup (IF IframeTree(n) # 0 THEN Subtree(IframeTree(n)) ELSE {})

\* the elements that root a StackingContext
Contexts ==
    {RootNode} \cup {IframeTree(n) : n \in {m \in Nodes : IframeTree(m) # 0}}
    \cup UNION {Range(negativeZIndex(n)) \cup Range(nonPositionedFloats(n))
                \cup Range(nonPositionedInlineLevel(n))
                \cup Range(zeroOrAutoZIndexOrTransformedOrOpacity(n))
                \cup Range(positiveZIndex(n)) : n \in Nodes}

SubtreeOf == [n \in Nodes |-> Subtree(n)]

IndexIn(seq, m) == CHOOSE k \in DOMAIN seq : m \in SubtreeOf[seq[k]]

Within(seq, m) == \E k \in DOMAIN seq : m \in SubtreeOf[seq[k]]

Targets == {"viewport", "background", "content"}

\* the CSS painting step (1..7) of context s that a draw operation on
\* element m of its subtree belongs to, and its place inside that step;
\* 0 is the viewport pre-fill of the render that paints s
StepOf(s, m, target) ==
    IF m = s
    THEN CASE target = "viewport" -> <<0, 0>>
           [] target = "background" -> <<1, 0>>
           [] OTHER -> <<3, 0>>
    ELSE IF IframeTree(s) # 0 /\ m \in SubtreeOf[IframeTree(s)]
    THEN <<3, 0>>
    ELSE IF Within(negativeZIndex(s), m)
    THEN <<2, IndexIn(negativeZIndex(s), m)>>
    ELSE IF Within(nonInlineLevel(s), m)
    THEN <<3, IndexIn(nonInlineLevel(s), m)>>
    ELSE IF Within(nonPositionedFloats(s), m)
    THEN <<4, IndexIn(nonPositionedFloats(s), m)>>
    ELSE IF Within(nonPositionedInlineLevel(s), m)
    THEN <<5, IndexIn(nonPositionedInlineLevel(s), m)>>
    ELSE IF Within(inlineLevel(s), m)
    THEN <<5, Len(nonPositionedInlineLevel(s)) + IndexIn(inlineLevel(s), m)>>
    ELSE IF Within(zeroOrAutoZIndexOrTransformedOrOpacity(s), m)
    THEN <<6, IndexIn(zeroOrAutoZIndexOrTransformedOrOpacity(s), m)>>
    ELSE <<7, IndexIn(positiveZIndex(s), m)>>

StepTable ==
    [s \in Contexts |-> [m \in SubtreeOf[s] |-> [target \in Targets |-> StepOf(s, m, target)]]]

NotAfter(a, b) == a[1] < b[1] \/ (a[1] = b[1] /\ a[2] <= b[2])

\* the steps of context s that the draw operations of its subtree belong
\* to, in the order the operations were issued
StepsPainted(s) ==
    LET inside == SelectSeq(ops, LAMBDA op : op.node \in SubtreeOf[s])
    IN  [k \in DOMAIN inside |-> StepTable[s][inside[k].node][inside[k].target]]

\* C1: for every stacking context the draw operations of its subtree come
\* in the order of the seven steps: root background and borders, negative
\* z-index contexts, root content then block descendants, floats, inline
\* contexts then inline nodes, zero/auto z-index contexts, positive z-index
\* contexts, each list in its own order; child contexts obey the same rule.
SevenStepPaintOrder ==
    \A s \in Contexts :
        LET steps == StepsPainted(s)
        IN  \A k \in 1..(Len(steps) - 1) : NotAfter(steps[k], steps[k + 1])

\* C1 witness: a finished pass that painted something in each of the seven
\* steps of the root context and, recursively, in steps 1, 3 and 7 of the
\* negative z-index child context.
SevenStepWitness ==
    /\ status = "resolved"
    /\ 1..7 \subseteq {StepsPainted(RootNode)[k][1] : k \in DOMAIN StepsPainted(RootNode)}
    /\ {1, 3, 7} \subseteq {StepsPainted(2)[k][1] : k \in DOMAIN StepsPainted(2)}

\* the place in ChildList(s) of the child whose subtree holds element m,
\* 0 when m is in no child's subtree
ChildIndex ==
    [s \in Nodes |-> [m \in Nodes |->
        IF Within(ChildList(s), m) THEN IndexIn(ChildList(s), m) ELSE 0]]

\* the elements whose painting is suspended: a request of theirs is
\* outstanding, or their iframe is being rendered
Suspended ==
    {pending[k].node : k \in DOMAIN pending}
    \cup {agenda[k].node : k \in {j \in DOMAIN agenda : agenda[j].op = "drawIframe"}}

\* C2: of two siblings, no draw operation of the later sibling's subtree is
\* issued before one of the earlier sibling's subtree, nor while the
\* painting of the earlier sibling's subtree is suspended on an image or on
\* an iframe render.
SiblingsDoNotInterleave ==
    \A s \in Nodes :
        LET painted == SelectSeq(ops, LAMBDA op : ChildIndex[s][op.node] > 0)
        IN  /\ \A k \in 1..(Len(painted) - 1) :
                ChildIndex[s][painted[k].node] <= ChildIndex[s][painted[k + 1].node]
            /\ \A u \in Suspended :
                ChildIndex[s][u] > 0 =>
                    \A k \in DOMAIN painted :
                        ChildIndex[s][painted[k].node] <= ChildIndex[s][u]

\* C2 witness: the pass finished after the <img> (element 3) and the iframe
\* (element 4) both suspended and painted, and their later siblings painted.
SiblingsWitness ==
    /\ status = "resolved"
    /\ \E p, q, r \in DOMAIN ops :
        /\ ops[p].node = 3 /\ ops[p].kind = "image"
        /\ ops[q].node = 21 /\ ops[q].kind = "url"
        /\ ops[r].node = 5
        /\ p < q /\ q < r

\* C3: at most one cache.match request is outstanding, and a step taken
\* while a request is outstanding issues no draw operation unless it is the
\* settlement of that request.
OneRequestNoDrawMeanwhile ==
    [][/\ Len(pending') <= 1
       /\ pending # <<>> => (pending' = <<>> \/ ops' = ops)]_vars

\* C3 witness: a mask layer's request is outstanding after background
\* layers have been drawn.
RequestOutstandingWitness ==
    /\ Len(pending) = 1
    /\ pending[1].kind = "mask-image"
    /\ \E p \in DOMAIN ops : ops[p].kind = "url" /\ ops[p].node = LayeredNode

(***************************************************************************)
(* Failures: a bitmap that does not resolve, a size that does not resolve  *)
(***************************************************************************)
LayerKinds == {"url", "linear-gradient", "radial-gradient"}

\* the draw operations that painted background layer `index` of element n
\* into the element's offscreen canvas
LayerOps(n, index) ==
    {k \in DOMAIN ops : /\ ops[k].node = n /\ ops[k].index = index
                        /\ ops[k].surface = "temp" /\ ops[k].kind \in LayerKinds}

FailedBackgroundLayers ==
    {<<logged[k].node, logged[k].index>> :
        k \in {j \in DOMAIN logged : logged[j].message = "Error loading background-image"}}

\* C4: when the bitmap of a background layer fails to resolve the failure is
\* logged and that layer alone is omitted: every other background layer of
\* the element that is painted is painted at its own position (untranslated
\* path, pattern at the layer's own offset), and once render() has resolved
\* every other layer of the element has been painted.
FailedLayerOnlyOmitted ==
    \A failed \in FailedBackgroundLayers :
        LET n == failed[1]
            others == {j \in 0..(Len(backgroundImageOf(n)) - 1) : <<n, j>> \notin FailedBackgroundLayers}
        IN  /\ LayerOps(n, failed[2]) = {}
            /\ \A j \in others :
                /\ \A k \in LayerOps(n, j) :
                    /\ ops[k].origin = <<0, 0>>
                    /\ ops[k].pattern = getMaskValueForIndex(PositionList, j)
                /\ status = "resolved" => LayerOps(n, j) # {}

\* the intrinsic size the renderer passes for a background layer
intrinsicSizeOf(layer) == IF layer = "url" THEN ImageIntrinsic ELSE <<Null, Null, Null>>

\* the background layers of element n whose size does not resolve
UnresolvableLayers(n) ==
    {j \in 0..(Len(backgroundImageOf(n)) - 1) :
        calculateTempBackgroundRendering(n, j, intrinsicSizeOf(backgroundImageOf(n)[j + 1])).error # ""}

\* C5: a layer whose size cannot be resolved on both axes does not make
\* render() reject: the element's other layers that were reached, its
\* shadows and its borders are still painted when the pass ends.
SizeErrorScopedToLayer ==
    \A n \in Nodes :
        UnresolvableLayers(n) # {} =>
            /\ status # "rejected"
            /\ status = "resolved" =>
                /\ \A j \in UnresolvableLayers(n) : LayerOps(n, j) = {}
                /\ \E k \in DOMAIN ops : ops[k].node = n /\ ops[k].kind = "border"
                /\ boxShadow(n) > 0 =>
                    \E k \in DOMAIN ops : ops[k].node = n /\ ops[k].kind = "box-shadow"

RequestKinds == {"background-image", "mask-image", "image", "list-style-image"}

\* the kind of draw operation that paints the bitmap of a request
PaintKind(kind) ==
    CASE kind = "background-image" -> "url"
      [] kind = "mask-image" -> "mask"
      [] OTHER -> kind

\* C6: no layer's resource is requested twice in a pass, and a layer whose
\* request failed is never painted afterwards.
RequestedAtMostOnce ==
    /\ \A i, j \in DOMAIN requests : i # j => requests[i] # requests[j]
    /\ \A e \in DOMAIN logged, kind \in RequestKinds :
        logged[e].message = "Error loading " \o kind =>
            \A k \in DOMAIN ops :
                ~(/\ ops[k].kind = PaintKind(kind)
                  /\ ops[k].node = logged[e].node
                  /\ ops[k].index = logged[e].index)

\* C6 witness: the pass resolved after a background layer and a mask layer
\* of the layered element failed, each requested once.
RequestedOnceWitness ==
    /\ status = "resolved"
    /\ <<LayeredNode, 0>> \in FailedBackgroundLayers
    /\ \E e \in DOMAIN logged :
        logged[e].message = "Error loading mask-image" /\ logged[e].node = LayeredNode
    /\ Len(SelectSeq(requests, LAMBDA r : r.node = LayeredNode)) >= 2

\* a renderer whose surface holds one save per active effect, in order, and
\* at most one more (the background clip of the element being painted)
Balanced(effects, saves) ==
    /\ Len(saves) >= Len(effects)
    /\ Len(saves) <= Len(effects) + 1
    /\ SubSeq(saves, 1, Len(effects)) = effects
    /\ \A k \in (Len(effects) + 1)..Len(saves) : saves[k] = "save"

\* C7: every draw operation for a node's background/borders or content is
\* issued with the active effects equal to that node's effect list for the
\* target and one surface save per effect; every renderer's stack is
\* balanced at all times, nothing of a previous node being left on it; the
\* iframe's renderer has an empty stack when it returns, and so has the
\* renderer when render() resolves.
EffectStackBalanced ==
    /\ \A k \in DOMAIN ops :
        ops[k].target \in {"background", "content"} =>
            /\ ops[k].effects = getEffects(ops[k].node, ops[k].target)
            /\ Balanced(ops[k].effects, ops[k].saves)
    /\ \A r \in DOMAIN renderers : Balanced(renderers[r].effects, renderers[r].saves)
    /\ (agenda # <<>> /\ NextTask.op = "drawIframe") => Current = NewRenderer
    /\ status = "resolved" => renderers = <<NewRenderer>>

\* C7 witness: the pass resolved after painting content under two stacked
\* effects, a node under effects that replace a sibling's, and the iframe's
\* tree in its own renderer.
EffectStackWitness ==
    /\ status = "resolved"
    /\ \E k \in DOMAIN ops :
        /\ ops[k].node = LayeredNode /\ ops[k].target = "content"
        /\ Len(ops[k].effects) = 2
    /\ \E k \in DOMAIN ops : ops[k].node = 12 /\ Len(ops[k].effects) = 2
    /\ \E k \in DOMAIN ops : ops[k].node = 21 /\ ops[k].depth = 2

(***************************************************************************)
(* The viewport pre-fill                                                   *)
(***************************************************************************)
\* a colour whose alpha channel is 0
isTransparent(color) == color[4] = 0

\* the pre-fill operations of the outermost render
Prefills == {k \in DOMAIN ops : ops[k].kind = "prefill" /\ ops[k].depth = 1}

\* C16: once render() has started, the viewport has been pre-filled, before
\* any element paint operation, exactly when backgroundColor is provided
\* and not transparent; when it is absent or transparent no pre-fill is
\* issued.
PrefillIffNotTransparent ==
    status # "idle" =>
        IF optionsBackgroundColor # NoColor /\ ~isTransparent(optionsBackgroundColor)
        THEN Prefills = {1}
        ELSE Prefills = {}

(***************************************************************************)
(* Iframes                                                                 *)
(***************************************************************************)
Iframes == {n \in Nodes : Kind(n) = "iframe" /\ IframeTree(n) # 0}

\* the operations issued by the nested render of iframe n
NestedOps(n) == {k \in DOMAIN ops : ops[k].node \in SubtreeOf[IframeTree(n)]}

\* the blits of iframe n's canvas into the parent surface
Blits(n) == {k \in DOMAIN ops : ops[k].node = n /\ ops[k].kind = "iframe"}

LayerPainted ==
    /\ Len(ops') = Len(ops) + 1
    /\ ops'[Len(ops')].surface = "temp"
    /\ ops'[Len(ops')].kind \in LayerKinds

\* C18: painting a background-image layer (URL image, linear or radial
\* gradient) leaves the offscreen canvas's transform as it was before the
\* layer.
LayerRestoresTransform ==
    [][LayerPainted => temp'.transform = temp.transform]_vars

\* the background-image layer operations of element n, in the order issued
LayersPainted(n) ==
    SelectSeq(ops, LAMBDA op : op.node = n /\ op.surface = "temp" /\ op.kind \in LayerKinds)

\* the background-image requests of element n, in the order issued
LayersRequested(n) ==
    SelectSeq(requests, LAMBDA r : r.node = n /\ r.kind = "background-image")

\* C19: the background layers of an element are painted, and their bitmaps
\* requested, from the last declared index down to index 0, and each layer
\* is painted as the layer declared at its index with the geometry looked
\* up for that index, whatever happened to the layers handled before it.
LayersBackToFront ==
    \A n \in Nodes :
        LET painted == LayersPainted(n)
            requested == LayersRequested(n)
        IN  /\ \A k \in 1..(Len(painted) - 1) : painted[k].index > painted[k + 1].index
            /\ \A k \in 1..(Len(requested) - 1) : requested[k].index > requested[k + 1].index
            /\ \A k \in DOMAIN painted :
                /\ painted[k].index \in 0..(Len(backgroundImageOf(n)) - 1)
                /\ painted[k].kind = backgroundImageOf(n)[painted[k].index + 1]
                /\ painted[k].pattern =
                       Translate(painted[k].origin,
                                 getMaskValueForIndex(PositionList, painted[k].index)[1],
                                 getMaskValueForIndex(PositionList, painted[k].index)[2])

\* C19 witness: of three layers the last was painted first, the middle one
\* failed to resolve and the first declared was painted last.
BackToFrontWitness ==
    /\ <<LayeredNode, 1>> \in FailedBackgroundLayers
    /\ Len(LayersPainted(LayeredNode)) = 2
    /\ LayersPainted(LayeredNode)[1].index = 2
    /\ LayersPainted(LayeredNode)[2].index = 0

(***************************************************************************)
(* Compositing order of one element's background                           *)
(***************************************************************************)
\* the stage of the background compositing an operation belongs to
Stage(op) ==
    CASE op.kind = "fillRect" -> 1
      [] op.kind \in LayerKinds -> 2
      [] op.kind = "mask" -> 3
      [] op.kind = "putImageData" -> 4
      [] op.kind = "drawImage" -> 5
      [] OTHER -> 6

\* the operations of element n's background and borders, in the order issued
BackgroundOps(n) == SelectSeq(ops, LAMBDA op : op.node = n /\ op.target = "background")

\* C20: for each element the background colour and the background-image
\* layers go to the offscreen canvas first, then the mask layers and the one
\* merge, then the one blit onto the main surface, then box shadows and
\* borders; nothing of the background reaches the main surface but the
\* blit, and an element with mask layers is never blitted unmerged.
MaskOnceAfterLayersBeforeBlit ==
    \A n \in Nodes :
        LET painted == BackgroundOps(n)
            merges == {k \in DOMAIN painted : painted[k].kind = "putImageData"}
            blits == {k \in DOMAIN painted : painted[k].kind = "drawImage"}
        IN  /\ \A k \in 1..(Len(painted) - 1) : Stage(painted[k]) <= Stage(painted[k + 1])
            /\ \A k \in DOMAIN painted :
                (painted[k].surface = "canvas") = (Stage(painted[k]) >= 5)
            /\ Cardinality(merges) <= 1
            /\ Cardinality(blits) <= 1
            /\ blits # {} => (merges # {}) = (Len(maskImageOf(n)) > 0)

\* C20 witness: the layered element's colour, two image layers and a mask
\* layer were composited, merged once and blitted, and its shadow and
\* borders painted.
MaskOnceWitness ==
    LET painted == BackgroundOps(LayeredNode)
    IN  /\ Len(LayersPainted(LayeredNode)) = 2
        /\ {Stage(painted[k]) : k \in DOMAIN painted} = 1..6
        /\ \E k \in DOMAIN painted : painted[k].kind = "box-shadow"
        /\ \E k \in DOMAIN painted : painted[k].kind = "border"

(***************************************************************************)
(* Visibility                                                              *)
(***************************************************************************)
\* the elements renderStack or renderNode of `n` would paint: the whole
\* subtree of a stacking context, the element itself for a bucket leaf
PaintedThrough(n) == IF n \in Contexts THEN SubtreeOf[n] ELSE {n}

\* C27: nothing is painted and no resource is requested for an invisible
\* stacking-context root or for anything in its buckets, whatever the
\* visibility of the descendants; of an invisible bucket leaf neither the
\* background and borders nor the content are painted.  (The viewport
\* pre-fill of a document is render()'s, not renderStack's.)
InvisibleNotPainted ==
    \A n \in hidden :
        LET skipped == PaintedThrough(n)
        IN  /\ \A k \in DOMAIN ops : ops[k].kind # "prefill" => ops[k].node \notin skipped
            /\ \A k \in DOMAIN requests : requests[k].node \notin skipped
            /\ \A k \in DOMAIN pending : pending[k].node \notin skipped

\* C27 witness: a pass has resolved with the inline-level leaf 7 and the
\* root 20 of the iframe's document invisible; the iframe element 4 has
\* had its canvas drawn, while the visible descendants 21 and 22 of 20 were
\* never painted.
InvisibleWitness ==
    /\ status = "resolved"
    /\ hidden = {7, 20}
    /\ {21, 22} \cap hidden = {}
    /\ \E k \in DOMAIN ops : ops[k].node = 4 /\ ops[k].kind = "iframe"
    /\ \A k \in DOMAIN ops : ops[k].node \notin {7, 21, 22}

(***************************************************************************)
(* SpecLive: the render pass under the scheduling of the event loop: a     *)
(* continuation that is ready runs, and every cache.match that is          *)
(* outstanding settles, with an image or with an error.                    *)
(***************************************************************************)
SpecLive == Init /\ [][Next]_vars /\ WF_vars(Next)

\* what a draw operation paints: an element, the part of it, and the layer,
\* side, shadow or text run within the part
Painted(k) == <<ops[k].depth, ops[k].node, ops[k].target, ops[k].kind, ops[k].index>>

\* nothing is painted twice in a pass
PaintedAtMostOnce == Cardinality({Painted(k) : k \in DOMAIN ops}) = Len(ops)

\* C30: render() on the finite document, its iframe's document included,
\* eventually resolves, every request settling; and nothing of any bucket
\* is painted more than once in the pass.
RenderEventuallyResolves == <>(status = "resolved") /\ []PaintedAtMostOnce

====
